---- MODULE Spec2Model ----
(***************************************************************************)
(* Batch OCR engine of src/src/helpers/openl-ocr.js: advisory lock markers, *)
(* the classification of the scanned images, the worker pool and the        *)
(* completion marker.                                                        *)
(*                                                                           *)
(* The root folder holds the first numFiles images of the listing           *)
(*   a.jpg, a.png, b.jpg, b.png, ...                                         *)
(* so image i has stem (i+1) \div 2: images 2k-1 and 2k share a base name.   *)
(* Time is counted in minutes.  A second instance of the same script        *)
(* ("other") runs the lock protocol on the same folder.                     *)
(*                                                                           *)
(* The ProxyManager (the rotating list of proxies, its cursor, its cache     *)
(* file) is modelled with the calls its clients make to it; on its clock     *)
(* HalfHour ticks make the 30 minutes of the refresh interval.               *)
(***************************************************************************)
EXTENDS Integers, Sequences, FiniteSets, TLC

\* ---- bounds of the model ----
MaxImages == 3
MaxBatch == 2
MaxStaleLock == 1
MaxTime == 2
MaxOtherOps == 1
MaxProxies == 2
MaxCalls == 3
HalfHour == 1
MaxRetries == 2
MaxCallers == 2
MaxItems == 2

AllImages == 1..MaxImages
Workers == 1..MaxBatch

\* path.basename(imagePath, path.extname(imagePath)): the name without extension
Stem(i) == (i + 1) \div 2
Stems == {Stem(i) : i \in AllImages}

\* `${basename}.txt` joined to the image's directory: one artifact path per stem
TxtPath(i) == Stem(i)

NoLock == [owner |-> "none", mtime |-> 0]
NoTxt == [present |-> FALSE, text |-> 0]
\* an artifact left by an earlier run
OldTxt == [present |-> TRUE, text |-> 0]
\* the artifact holding the text the OCR service recognises in image i
TextOf(i) == [present |-> TRUE, text |-> i]

Min(a, b) == IF a < b THEN a ELSE b

VARIABLES
  batchSize,      \* config.batchSize
  staleLockTime,  \* config.staleLockTime (minutes)
  rootKind,       \* what folderPath names: "dir", "file", "missing", or "unreadable"
                  \* (a directory under which an entry cannot be read)
  numFiles,       \* number of image files under the root
  lock,           \* lock[i]: the marker `${imagePath}.lock` (owner, mtime) or NoLock
  txt,            \* txt[s]: content of the result artifact of stem s, or NoTxt
  progressFlag,   \* ocr_in_progress.flag exists
  completionFlag, \* content of ocr_completed.flag
  now,            \* Date.now(), in minutes
  pc,             \* position of main
  exitCode,       \* process exit code, -1 while running
  imageFiles,     \* result of findImageFiles
  pending,        \* pendingImagePaths
  queue,          \* the shared queue of the pool
  results,        \* results.{successful, failed, skipped, locked, details}
  workerCount,    \* number of workers the pool starts
  spawned,        \* number of worker() calls made so far
  wpc,            \* position of each worker
  wimg,           \* image the worker's task is about
  wres,           \* outcome returned by performOCR, not yet recorded
  started,        \* history: number of performOCR calls per image
  fetched,        \* history: number of fetchWithProxy calls per image
  acquired,       \* history: images whose marker this run created
  lastAcquire,    \* history: the last acquireLock call
  lastRemove,     \* history: the last removeLockFile call
  otherOps,       \* number of steps of the other instance
  touched,        \* history: images whose marker the other instance touched
  faults,         \* history: failed I/O of this run, <<kind, image>>
  startLock,      \* history: lock when the run started
  startTxt,       \* history: txt when the run started
  startTime,      \* history: now when the run started
  useProxy,       \* config.useProxy
  proxies,        \* ProxyManager.proxies: sequence of [addr, fails]
  currentIndex,   \* ProxyManager.currentIndex (0-based)
  lastRefresh,    \* ProxyManager.lastRefresh
  proxyCache,     \* content of available_proxies.json
  held,           \* held[a]: entries with address a returned by getProxy to calls
                  \* of fetchWithProxy that have not finished with them
  waiting,        \* getProxy calls suspended in refreshProxies, per call site
  listFetched,    \* history: the proxy list was requested from the network
  lastGet,        \* history: how the last getProxy call ended
  disturbed,      \* history: an eviction or a refresh since the last entry returned
  evicted,        \* history: addresses removed for reaching the eviction limit
  evictedNow,     \* history: the same, since the last refresh of the list
  proxyRetries,   \* config.proxyRetries
  fpc,            \* position of each call of fetchWithProxy
  attempt,        \* attempt, the loop counter of each call
  proxy,          \* proxy, the local variable of each call: an address, 0 for null
  proxied,        \* history: requests made through a proxy by each call
  direct,         \* history: requests made without proxy by each call
  seen,           \* history: how the getProxy calls of each call ended
  outcome,        \* history: how each call ended
  tree,           \* the directory that findImageFiles is called on
  extensions,     \* config.fileExtensions
  found,          \* what findImageFiles has returned
  lpc,            \* position of each process inside acquireLock / removeLockFile
  unlinked,       \* history: markers of each image deleted by the removeLockFile
                  \* calls that the tasks of this run made after acquireLock
  prior           \* history: results.details of the run made before this one

vars == <<batchSize, staleLockTime, rootKind, numFiles, lock, txt, progressFlag,
          completionFlag, now, pc, exitCode, imageFiles, pending, queue, results,
          workerCount, spawned, wpc, wimg, wres, started, fetched, acquired,
          lastAcquire, lastRemove, otherOps, touched, faults, startLock, startTxt,
          startTime, useProxy, proxies, currentIndex, lastRefresh, proxyCache, held,
          waiting, listFetched, lastGet, disturbed, evicted, evictedNow,
          proxyRetries, fpc, attempt, proxy, proxied, direct, seen, outcome,
          tree, extensions, found, lpc, unlinked, prior>>

cfgVars == <<batchSize, staleLockTime, rootKind, numFiles, proxyRetries>>
histStart == <<startLock, startTxt, startTime, prior>>
mgrVars == <<proxies, currentIndex, lastRefresh, proxyCache>>
histProxy == <<listFetched, lastGet, disturbed, evicted, evictedNow>>
proxyVars == <<useProxy, mgrVars, held, waiting, histProxy>>
histFetch == <<proxied, direct, seen, outcome>>
callVars == <<fpc, attempt, proxy, histFetch>>
scanVars == <<tree, extensions, found>>
\* what the actions of main, of the pool and of the manager's callers leave alone
sideVars == <<callVars, scanVars, lpc>>

\* ---------------------------------------------------------------------------
\* Lock manager (pure functions of the marker table)
\* ---------------------------------------------------------------------------

isFileLocked(lk, i) == lk[i] # NoLock

\* mutant: a marker of age exactly W already counts as stale
isLockStale_AtBoundary(lk, i, W, t) ==
  IF lk[i] = NoLock THEN FALSE ELSE (t - lk[i].mtime) >= W

\* lockAge > staleLockTimeMinutes; a missing marker is not stale
isLockStale(lk, i, W, t) ==
  IF lk[i] = NoLock THEN FALSE ELSE (t - lk[i].mtime) > W

\* writeFileSync of `${processId}:${Date.now()}`; a failed write returns false
createLockFile(lk, i, pid, t, writeOk) ==
  IF writeOk
    THEN [lock |-> [lk EXCEPT ![i] = [owner |-> pid, mtime |-> t]], ret |-> TRUE]
    ELSE [lock |-> lk, ret |-> FALSE]

\* mutant: the failure of unlinkSync is swallowed, the result is true
removeLockFile_SwallowsFailure(lk, i, unlinkOk) ==
  IF lk[i] # NoLock /\ unlinkOk
    THEN [lock |-> [lk EXCEPT ![i] = NoLock], ret |-> TRUE]
    ELSE [lock |-> lk, ret |-> TRUE]

\* unlinkSync when the marker exists; a failed unlink returns false
removeLockFile(lk, i, unlinkOk) ==
  IF lk[i] # NoLock
    THEN IF unlinkOk
           THEN [lock |-> [lk EXCEPT ![i] = NoLock], ret |-> TRUE]
           ELSE [lock |-> lk, ret |-> FALSE]
    ELSE [lock |-> lk, ret |-> TRUE]

\* mutant: an existing marker is never overridden, however old
acquireLock_NoOverride(lk, i, pid, W, t, unlinkOk, writeOk) ==
  IF lk[i] = NoLock
    THEN createLockFile(lk, i, pid, t, writeOk)
    ELSE [lock |-> lk, ret |-> FALSE]

\* mutant: an existing marker is overridden whatever its age
acquireLock_OverridesFresh(lk, i, pid, W, t, unlinkOk, writeOk) ==
  IF lk[i] = NoLock
    THEN createLockFile(lk, i, pid, t, writeOk)
    ELSE createLockFile(removeLockFile(lk, i, unlinkOk).lock, i, pid, t, writeOk)

acquireLock(lk, i, pid, W, t, unlinkOk, writeOk) ==
  IF lk[i] = NoLock
    THEN createLockFile(lk, i, pid, t, writeOk)
    ELSE IF isLockStale(lk, i, W, t)
           THEN createLockFile(removeLockFile(lk, i, unlinkOk).lock, i, pid, t, writeOk)
           ELSE [lock |-> lk, ret |-> FALSE]

NoCall == [valid |-> FALSE, img |-> 0, by |-> "none", pre |-> NoLock, post |-> NoLock,
           ret |-> FALSE, t |-> 0, W |-> 0, unlinkOk |-> TRUE, writeOk |-> TRUE]

AcquireCall(lk, i, pid, W, t, unlinkOk, writeOk) ==
  LET r == acquireLock(lk, i, pid, W, t, unlinkOk, writeOk)
  IN [valid |-> TRUE, img |-> i, by |-> pid, pre |-> lk[i], post |-> r.lock[i],
      ret |-> r.ret, t |-> t, W |-> W, unlinkOk |-> unlinkOk, writeOk |-> writeOk]

RemoveCall(lk, i, pid, unlinkOk) ==
  LET r == removeLockFile(lk, i, unlinkOk)
  IN [valid |-> TRUE, img |-> i, by |-> pid, pre |-> lk[i], post |-> r.lock[i],
      ret |-> r.ret, t |-> 0, W |-> 0, unlinkOk |-> unlinkOk, writeOk |-> TRUE]

\* fault flags are drawn only where the call reaches the failing primitive
UnlinkChoices(lk, i) == IF lk[i] # NoLock THEN BOOLEAN ELSE {TRUE}
AcqUnlinkChoices(lk, i, W, t) == IF isLockStale(lk, i, W, t) THEN BOOLEAN ELSE {TRUE}
AcqWriteChoices(lk, i, W, t) ==
  IF lk[i] = NoLock \/ isLockStale(lk, i, W, t) THEN BOOLEAN ELSE {TRUE}


\* ---------------------------------------------------------------------------
\* Scan and classification
\* ---------------------------------------------------------------------------

\* the files under the root in listing order; nothing unless the root is a
\* directory, and nothing when an error anywhere in the scan is caught
findImageFiles(kind, n) == IF kind = "dir" THEN [k \in 1..n |-> k] ELSE <<>>

\* ---- the directory tree that findImageFiles walks ----

\* extensions of the files of the tree, and path.extname(item).toLowerCase()
Exts == {"jpg", "JPG", "txt"}
toLowerCase(e) == IF e = "JPG" THEN "jpg" ELSE e

\* an entry of a directory: a regular file, a directory, something that is
\* neither (a socket, a device), or an entry whose statSync fails (a dangling
\* link); readable tells whether readdirSync of a directory succeeds
Item(k, e, r, q) == [kind |-> k, ext |-> e, readable |-> r, items |-> q]
Leaves ==
  {Item("file", e, TRUE, <<>>) : e \in Exts}
    \cup {Item("other", "", TRUE, <<>>), Item("broken", "", TRUE, <<>>)}
SeqsOf(S) == UNION {[1..n -> S] : n \in 0..MaxItems}
SubDirs == {Item("dir", "", r, q) : r \in BOOLEAN, q \in SeqsOf(Leaves)}
Trees == {Item("dir", "", r, q) : r \in BOOLEAN, q \in SeqsOf(Leaves \cup SubDirs)}

Threw == [threw |-> TRUE, files |-> <<>>]

RECURSIVE scanDirectory(_, _, _)
RECURSIVE scanItems(_, _, _, _)
\* the for loop of scanDirectory from the k-th item of the listing; a path is
\* the sequence of positions that leads to the entry
scanItems(items, k, dir, exts) ==
  IF k > Len(items)
    THEN [threw |-> FALSE, files |-> <<>>]
    ELSE LET it == items[k]
             itemPath == Append(dir, k)
         IN IF it.kind = "broken"
              THEN Threw
              ELSE LET here ==
                         IF it.kind = "dir"
                           THEN scanDirectory(it, itemPath, exts)
                           ELSE [threw |-> FALSE,
                                 files |-> IF it.kind = "file"
                                                /\ toLowerCase(it.ext) \in exts
                                             THEN <<itemPath>> ELSE <<>>]
                   IN IF here.threw
                        THEN Threw
                        ELSE LET rest == scanItems(items, k + 1, dir, exts)
                             IN IF rest.threw
                                  THEN Threw
                                  ELSE [threw |-> FALSE,
                                        files |-> here.files \o rest.files]

\* scanDirectory(dir): readdirSync throws on a directory that cannot be read
scanDirectory(d, dir, exts) ==
  IF ~d.readable THEN Threw ELSE scanItems(d.items, 1, dir, exts)

\* findImageFiles on a tree: the catch around the whole scan returns []
findImageFilesIn(root, exts) ==
  LET r == scanDirectory(root, <<>>, exts)
  IN IF r.threw THEN <<>> ELSE r.files

NotScanned == [done |-> FALSE, files |-> <<>>]

\* findImageFiles is not followed on a tree
NoScan ==
  /\ tree = Item("dir", "", TRUE, <<>>)
  /\ extensions = {"jpg"}
  /\ found = NotScanned

\* mutant: the lock test comes before the artifact test
Classify_LockFirst(lk, tx, i) ==
  IF isFileLocked(lk, i) THEN "Locked"
  ELSE IF tx[TxtPath(i)] # NoTxt THEN "Skipped"
  ELSE "pending"

\* mutant: a locked image is filed under the already-processed ones
Classify_LockedAsSkipped(lk, tx, i) ==
  IF tx[TxtPath(i)] # NoTxt \/ isFileLocked(lk, i) THEN "Skipped" ELSE "pending"

\* the three-way branch of the initial filtering loop
Classify(lk, tx, i) ==
  IF tx[TxtPath(i)] # NoTxt THEN "Skipped"
  ELSE IF isFileLocked(lk, i) THEN "Locked"
  ELSE "pending"

RECURSIVE ClassifiedDetails(_, _, _)
ClassifiedDetails(files, lk, tx) ==
  IF files = <<>> THEN <<>>
  ELSE LET c == Classify(lk, tx, Head(files))
           rest == ClassifiedDetails(Tail(files), lk, tx)
       IN IF c = "pending" THEN rest ELSE <<[img |-> Head(files), kind |-> c]>> \o rest

RECURSIVE PendingOf(_, _, _)
PendingOf(files, lk, tx) ==
  IF files = <<>> THEN <<>>
  ELSE LET rest == PendingOf(Tail(files), lk, tx)
       IN IF Classify(lk, tx, Head(files)) = "pending" THEN <<Head(files)>> \o rest ELSE rest

CountKind(details, k) == Cardinality({n \in 1..Len(details) : details[n].kind = k})

EmptyResults == [successful |-> 0, failed |-> 0, skipped |-> 0, locked |-> 0, details |-> <<>>]

\* results after the initial filtering loop
InitialResults(files, lk, tx) ==
  LET d == ClassifiedDetails(files, lk, tx)
  IN [successful |-> 0, failed |-> 0,
      skipped |-> CountKind(d, "Skipped"), locked |-> CountKind(d, "Locked"),
      details |-> d]

\* mutant: a task that found its image locked is not counted
CountOutcome_DropsLocked(res, i, kind) ==
  [successful |-> res.successful + (IF kind = "Success" THEN 1 ELSE 0),
   locked     |-> res.locked,
   failed     |-> res.failed + (IF kind \notin {"Success", "Locked"} THEN 1 ELSE 0),
   skipped    |-> res.skipped,
   details    |-> Append(res.details, [img |-> i, kind |-> kind])]

\* the worker's bookkeeping of one task outcome
CountOutcome(res, i, kind) ==
  [successful |-> res.successful + (IF kind = "Success" THEN 1 ELSE 0),
   locked     |-> res.locked + (IF kind = "Locked" THEN 1 ELSE 0),
   failed     |-> res.failed + (IF kind \notin {"Success", "Locked"} THEN 1 ELSE 0),
   skipped    |-> res.skipped,
   details    |-> Append(res.details, [img |-> i, kind |-> kind])]

\* mutant: config.batchSize workers whatever the number of pending images
WorkerCountOf_BatchSize(c, n) == c

\* Math.min(config.batchSize, pendingImagePaths.length)
WorkerCountOf(c, n) == Min(c, n)

NoCompletion == [present |-> FALSE, total |-> 0, successful |-> 0, failed |-> 0,
                 skipped |-> 0, locked |-> 0]

\* completionData.results
CompletionData(res) ==
  [present |-> TRUE,
   total |-> res.successful + res.failed + res.skipped + res.locked,
   successful |-> res.successful, failed |-> res.failed,
   skipped |-> res.skipped, locked |-> res.locked]

\* ---------------------------------------------------------------------------
\* ProxyManager (pure functions of the manager's fields)
\* ---------------------------------------------------------------------------

\* proxy.fails >= 3: the entry is skipped by the selection
SkipLimit == 3
\* proxy.fails >= 5: the entry is removed from the list
EvictLimit == 5

\* ip:port of a proxy
Addrs == 1..MaxProxies

\* { ip, port, fails, lastUsed }; lastUsed is written and never read
Entry(a, n) == [addr |-> a, fails |-> n]

\* available_proxies.json: valid tells whether JSON.parse reads its content
NoCache == [present |-> FALSE, valid |-> TRUE, timestamp |-> 0, proxies |-> <<>>]
CacheOf(t, list) == [present |-> TRUE, valid |-> TRUE, timestamp |-> t, proxies |-> list]
\* a cache file whose content is not JSON
BrokenCache == [present |-> TRUE, valid |-> FALSE, timestamp |-> 0, proxies |-> <<>>]

\* this.lastRefresh = 0 of the constructor: the epoch, on a clock whose origin is
\* the start of the process
Epoch == 0 - (HalfHour + 1)

\* the fields of the manager as one value
Manager(ps, idx, last, cache) ==
  [proxies |-> ps, currentIndex |-> idx, lastRefresh |-> last, cache |-> cache]

\* rows of the table of free-proxy-list.net: address and the https column
Rows == [addr : Addrs, https : BOOLEAN]
RawLists ==
  {q \in UNION {[1..n -> Rows] : n \in 0..MaxProxies} :
     \A j, k \in 1..Len(q) : j < k => q[j].addr < q[k].addr}

\* what a refresh can meet: an error or a non-2xx response of the fetch, or a
\* page; saved tells whether the writeFileSync of the cache file then succeeds
Responses ==
  {[ok |-> FALSE, rows |-> <<>>, saved |-> FALSE]}
    \cup {[ok |-> TRUE, rows |-> q, saved |-> b] : q \in RawLists, b \in BOOLEAN}

IsHttps(r) == r.https

\* the rows with https = yes, as entries with fails 0
ParseRows(rows) ==
  LET yes == SelectSeq(rows, IsHttps)
  IN [n \in 1..Len(yes) |-> Entry(yes[n].addr, 0)]

\* mutant: a refresh that fails drops the list it had
refreshProxies_DropsList(m, resp, t) ==
  LET list == ParseRows(resp.rows)
  IN IF ~resp.ok \/ Len(list) = 0
       THEN [m |-> [m EXCEPT !.proxies = <<>>], threw |-> TRUE]
       ELSE IF ~resp.saved
         THEN [m |-> Manager(list, 0, t, m.cache), threw |-> TRUE]
         ELSE [m |-> Manager(list, 0, t, CacheOf(t, list)), threw |-> FALSE]

\* refreshProxies: a failed fetch or a page without https rows throws and leaves
\* the manager as it is; otherwise the list, the time stamp and the cursor are
\* replaced and the cache file is written; a failed write of the cache file
\* throws after the list has been replaced
refreshProxies(m, resp, t) ==
  LET list == ParseRows(resp.rows)
  IN IF ~resp.ok \/ Len(list) = 0
       THEN [m |-> m, threw |-> TRUE]
       ELSE IF ~resp.saved
         THEN [m |-> Manager(list, 0, t, m.cache), threw |-> TRUE]
         ELSE [m |-> Manager(list, 0, t, CacheOf(t, list)), threw |-> FALSE]

\* mutant: a cache that is exactly 30 minutes old is still taken
CacheUsable_AtBoundary(m, t) ==
  /\ m.cache.present
  /\ (t - m.cache.timestamp) <= HalfHour
  /\ Len(m.cache.proxies) > 0

\* init takes the cached list when the cache is less than 30 minutes old and not empty
CacheUsable(m, t) ==
  /\ m.cache.present
  /\ (t - m.cache.timestamp) < HalfHour
  /\ Len(m.cache.proxies) > 0

\* JSON.parse of the cache file throws inside the try of init
CacheUnreadable(m) == m.cache.present /\ ~m.cache.valid

\* init: the cached list, or a refresh; a cache file that cannot be parsed or a
\* failed refresh leaves an empty list
init(m, resp, t) ==
  IF CacheUnreadable(m)
    THEN [m EXCEPT !.proxies = <<>>]
    ELSE IF CacheUsable(m, t)
      THEN [m EXCEPT !.proxies = m.cache.proxies, !.lastRefresh = m.cache.timestamp]
      ELSE LET r == refreshProxies(m, resp, t)
           IN IF r.threw THEN [r.m EXCEPT !.proxies = <<>>] ELSE r.m

RECURSIVE Scan_NoAdvance(_, _, _)
\* mutant: the cursor stays on the entry that is returned
Scan_NoAdvance(ps, idx, left) ==
  IF left = 0
    THEN [kind |-> "reset", pos |-> 0, idx |-> idx]
    ELSE IF idx >= Len(ps)
      THEN [kind |-> "typeerror", pos |-> 0, idx |-> (idx + 1) % Len(ps)]
      ELSE IF ps[idx + 1].fails >= SkipLimit
        THEN Scan_NoAdvance(ps, (idx + 1) % Len(ps), left - 1)
        ELSE [kind |-> "entry", pos |-> idx, idx |-> idx]

RECURSIVE Scan(_, _, _)
\* the while loop of getProxy from cursor idx with `left` attempts left;
\* this.proxies[idx] is undefined when idx is past the end, and reading its
\* fails raises a TypeError after the cursor has moved
Scan(ps, idx, left) ==
  IF left = 0
    THEN [kind |-> "reset", pos |-> 0, idx |-> idx]
    ELSE IF idx >= Len(ps)
      THEN [kind |-> "typeerror", pos |-> 0, idx |-> (idx + 1) % Len(ps)]
      ELSE IF ps[idx + 1].fails >= SkipLimit
        THEN Scan(ps, (idx + 1) % Len(ps), left - 1)
        ELSE [kind |-> "entry", pos |-> idx, idx |-> (idx + 1) % Len(ps)]

ResetFails(ps) == [n \in 1..Len(ps) |-> Entry(ps[n].addr, 0)]

\* mutant: every selection sets the counts to 0
select_AlwaysResets(m) ==
  LET s == Scan(m.proxies, m.currentIndex, Len(m.proxies))
  IN [m |-> [m EXCEPT !.currentIndex = s.idx, !.proxies = ResetFails(m.proxies)],
      kind |-> s.kind,
      pos |-> s.pos,
      addr |-> IF s.kind = "typeerror" THEN 0 ELSE m.proxies[s.pos + 1].addr]

\* the selection of getProxy on a list that is not empty
select(m) ==
  LET s == Scan(m.proxies, m.currentIndex, Len(m.proxies))
  IN [m |-> [m EXCEPT !.currentIndex = s.idx,
                      !.proxies = IF s.kind = "reset" THEN ResetFails(m.proxies)
                                                      ELSE m.proxies],
      kind |-> s.kind,
      pos |-> s.pos,
      addr |-> IF s.kind = "typeerror" THEN 0 ELSE m.proxies[s.pos + 1].addr]

\* findIndex(p => p.ip === proxy.ip && p.port === proxy.port), 0 for -1
IndexOf(ps, a) ==
  IF \E n \in 1..Len(ps) : ps[n].addr = a
    THEN CHOOSE n \in 1..Len(ps) :
           ps[n].addr = a /\ \A k \in 1..(n - 1) : ps[k].addr # a
    ELSE 0

\* mutant: nothing is removed
Splice_Nothing(ps, n) == ps

\* splice(n, 1)
Splice(ps, n) == [k \in 1..(Len(ps) - 1) |-> IF k < n THEN ps[k] ELSE ps[k + 1]]

\* mutant: the entry is removed only when its count exceeds the limit
markProxyFailed_EvictsLate(m, a) ==
  LET n == IndexOf(m.proxies, a)
  IN IF n = 0
       THEN m
       ELSE LET bumped == [m.proxies EXCEPT ![n].fails = @ + 1]
                list == IF bumped[n].fails > EvictLimit THEN Splice(bumped, n)
                                                        ELSE bumped
            IN [m EXCEPT !.proxies = list,
                         !.cache = CacheOf(m.lastRefresh, list)]

\* markProxyFailed(proxy) for a proxy of address a
markProxyFailed(m, a) ==
  LET n == IndexOf(m.proxies, a)
  IN IF n = 0
       THEN m
       ELSE LET bumped == [m.proxies EXCEPT ![n].fails = @ + 1]
                list == IF bumped[n].fails >= EvictLimit THEN Splice(bumped, n)
                                                         ELSE bumped
            IN [m EXCEPT !.proxies = list,
                         !.cache = CacheOf(m.lastRefresh, list)]

\* ---------------------------------------------------------------------------
\* Initial states: the folder before the run
\* ---------------------------------------------------------------------------

FreshLock == [owner |-> "other", mtime |-> 0]
StaleLock(W) == [owner |-> "other", mtime |-> 0 - (W + 1)]

\* the two processes that work on the same folder
Instances == {"self", "other"}

\* the tasks that call fetchWithProxy
Callers == 1..MaxCallers

\* no call of fetchWithProxy has been made
NoFetchCall ==
  /\ fpc = [c \in Callers |-> "idle"]
  /\ attempt = [c \in Callers |-> 0]
  /\ proxy = [c \in Callers |-> 0]
  /\ proxied = [c \in Callers |-> 0]
  /\ direct = [c \in Callers |-> 0]
  /\ seen = [c \in Callers |-> {}]
  /\ outcome = [c \in Callers |-> "none"]

\* the folder, the configuration and the pool before main starts; under a root
\* that cannot be scanned no marker and no artifact is looked at
InitRun ==
  /\ batchSize \in 1..MaxBatch
  /\ staleLockTime \in 1..MaxStaleLock
  /\ rootKind \in {"dir", "file", "missing", "unreadable"}
  /\ numFiles \in 0..MaxImages
  /\ rootKind \in {"file", "missing"} => numFiles = 0
  /\ lock \in [AllImages -> {NoLock, FreshLock, StaleLock(staleLockTime)}]
  /\ \A i \in AllImages : (i > numFiles \/ rootKind = "unreadable") => lock[i] = NoLock
  /\ txt \in [Stems -> {NoTxt, OldTxt}]
  /\ \A s \in Stems : (\A i \in 1..numFiles : Stem(i) # s) => txt[s] = NoTxt
  /\ rootKind = "unreadable" => \A s \in Stems : txt[s] = NoTxt
  /\ progressFlag = FALSE
  /\ completionFlag = NoCompletion
  /\ now = 0
  /\ exitCode = -1
  /\ imageFiles = <<>>
  /\ pending = <<>>
  /\ queue = <<>>
  /\ results = EmptyResults
  /\ workerCount = 0
  /\ spawned = 0
  /\ wpc = [w \in Workers |-> "idle"]
  /\ wimg = [w \in Workers |-> 0]
  /\ wres = [w \in Workers |-> "none"]
  /\ started = [i \in AllImages |-> 0]
  /\ fetched = [i \in AllImages |-> 0]
  /\ acquired = {}
  /\ lastAcquire = NoCall
  /\ lastRemove = NoCall
  /\ otherOps = 0
  /\ touched = {}
  /\ faults = {}
  /\ startLock = lock
  /\ startTxt = txt
  /\ startTime = 0
  /\ NoFetchCall
  /\ lpc = [p \in Instances |-> "out"]
  /\ unlinked = [i \in AllImages |-> 0]
  /\ prior = <<>>

CallSites == {"r1", "r2"}
\* kind: "entry", "reset" (every count reset, first entry returned), "null",
\* "throw" (the refresh failed) or "typeerror"; after: "entry" or "reset" when the
\* call before it returned so and no eviction or refresh came in between
NoGet == [kind |-> "none", addr |-> 0, pos |-> 0, after |-> "none"]

\* new ProxyManager(config), no call made yet
NewManager ==
  /\ proxies = <<>>
  /\ currentIndex = 0
  /\ lastRefresh = Epoch
  /\ held = [a \in Addrs |-> 0]
  /\ waiting = [k \in CallSites |-> 0]
  /\ listFetched = FALSE
  /\ lastGet = NoGet
  /\ disturbed = FALSE
  /\ evicted = {}
  /\ evictedNow = {}

\* main after `await proxyManager.init()` has returned; the manager is followed
\* in SpecStartup and SpecProxy, not here
Init ==
  /\ InitRun
  /\ pc = "start"
  /\ useProxy = TRUE
  /\ proxyRetries = MaxRetries
  /\ proxyCache = NoCache
  /\ NewManager
  /\ NoScan

\* ---------------------------------------------------------------------------
\* main: validation, scan, classification
\* ---------------------------------------------------------------------------

poolVars == <<queue, workerCount, spawned, wpc, wimg, wres>>
histTask == <<started, fetched, acquired, faults, unlinked>>
histCall == <<lastAcquire, lastRemove>>

MainStart ==
  /\ pc = "start"
  /\ progressFlag' = TRUE
  /\ startLock' = lock
  /\ startTxt' = txt
  /\ startTime' = now
  /\ LET files == findImageFiles(rootKind, numFiles)
         pend == PendingOf(files, lock, txt)
     IN IF rootKind # "dir" \/ Len(files) = 0
          THEN /\ pc' = "aborted"
               /\ exitCode' = 1
               /\ UNCHANGED <<imageFiles, pending, queue, results, workerCount>>
          ELSE /\ imageFiles' = files
               /\ results' = InitialResults(files, lock, txt)
               /\ pending' = pend
               /\ exitCode' = exitCode
               /\ IF Len(pend) = 0
                    THEN /\ pc' = "complete"
                         /\ UNCHANGED <<queue, workerCount>>
                    ELSE /\ pc' = "spawn"
                         /\ queue' = pend
                         /\ workerCount' = WorkerCountOf(batchSize, Len(pend))
  /\ UNCHANGED <<cfgVars, proxyVars, sideVars, lock, txt, completionFlag, now, spawned, wpc, wimg, wres,
                 histTask, histCall, otherOps, touched, prior>>


\* ---------------------------------------------------------------------------
\* The worker pool
\* ---------------------------------------------------------------------------

\* one thread of control: a handler that has thrown runs its catch block before
\* any other callback of this process runs
JSIdle == \A w \in Workers : wpc[w] # "catch"

\* removeLockFile(imagePath) called by the task of image i, with the count of
\* the markers these calls have deleted
Unlinks(i, unlinkOk) ==
  /\ lock' = removeLockFile(lock, i, unlinkOk).lock
  /\ unlinked' = [unlinked EXCEPT ![i] = IF lock[i] # NoLock /\ unlinkOk THEN @ + 1 ELSE @]

FaultsOf(i, unlinkOk, writeOk, kindOfWrite) ==
  (IF unlinkOk THEN {} ELSE {<<"unlink", i>>})
    \cup (IF writeOk THEN {} ELSE {<<kindOfWrite, i>>})

\* while (queue.length > 0) { shift; performOCR up to its first await }
WorkerLoop(w) ==
  IF queue = <<>>
    THEN /\ wpc' = [wpc EXCEPT ![w] = "exit"]
         /\ UNCHANGED <<queue, wimg, wres, lock, started, fetched, acquired, faults,
                        unlinked>>
    ELSE LET i == Head(queue)
         IN /\ queue' = Tail(queue)
            /\ wimg' = [wimg EXCEPT ![w] = i]
            /\ started' = [started EXCEPT ![i] = @ + 1]
            /\ unlinked' = unlinked
            /\ \E unlinkOk \in AcqUnlinkChoices(lock, i, staleLockTime, now),
                  writeOk \in AcqWriteChoices(lock, i, staleLockTime, now) :
                 LET r == acquireLock(lock, i, "self", staleLockTime, now, unlinkOk, writeOk)
                 IN /\ lock' = r.lock
                    /\ IF ~r.ret
                         THEN /\ wpc' = [wpc EXCEPT ![w] = "result"]
                              /\ wres' = [wres EXCEPT ![w] = "Locked"]
                              /\ faults' = faults \cup FaultsOf(i, unlinkOk, writeOk, "lockwrite")
                              /\ UNCHANGED <<fetched, acquired>>
                         ELSE /\ acquired' = acquired \cup {i}
                              /\ wres' = wres
                              /\ \E readOk \in BOOLEAN :
                                   IF readOk
                                     THEN /\ wpc' = [wpc EXCEPT ![w] = "fetch"]
                                          /\ fetched' = [fetched EXCEPT ![i] = @ + 1]
                                          /\ faults' = faults \cup
                                               FaultsOf(i, unlinkOk, writeOk, "lockwrite")
                                     ELSE /\ wpc' = [wpc EXCEPT ![w] = "catch"]
                                          /\ fetched' = fetched
                                          /\ faults' = faults \cup {<<"read", i>>} \cup
                                               FaultsOf(i, unlinkOk, writeOk, "lockwrite")

\* for (i < workerCount) workerPromises.push(worker()): each call runs to its first await
SpawnWorker ==
  /\ pc = "spawn"
  /\ JSIdle
  /\ spawned < workerCount
  /\ wpc[spawned + 1] = "idle"
  /\ WorkerLoop(spawned + 1)
  /\ spawned' = spawned + 1
  /\ pc' = IF spawned + 1 = workerCount THEN "pool" ELSE "spawn"
  /\ UNCHANGED <<cfgVars, proxyVars, sideVars, txt, progressFlag, completionFlag, now, exitCode, imageFiles,
                 pending, results, workerCount, histCall, otherOps, touched, histStart>>

\* the awaited fetchWithProxy settles: a 2xx response, another response, or an error
FetchReturn(w) ==
  /\ pc = "pool"
  /\ JSIdle
  /\ wpc[w] = "fetch"
  /\ LET i == wimg[w]
     IN \E o \in {"ok", "notok", "throw"} :
          \/ /\ o = "ok"
             /\ wpc' = [wpc EXCEPT ![w] = "text"]
             /\ UNCHANGED <<lock, faults, unlinked>>
          \/ /\ o = "notok"
             /\ \E unlinkOk \in UnlinkChoices(lock, i) :
                  /\ Unlinks(i, unlinkOk)
                  /\ faults' = faults \cup {<<"net", i>>} \cup FaultsOf(i, unlinkOk, TRUE, "")
             /\ wpc' = [wpc EXCEPT ![w] = "catch"]
          \/ /\ o = "throw"
             /\ wpc' = [wpc EXCEPT ![w] = "catch"]
             /\ faults' = faults \cup {<<"net", i>>}
             /\ UNCHANGED <<lock, unlinked>>
  /\ UNCHANGED <<cfgVars, proxyVars, sideVars, txt, progressFlag, completionFlag, now, pc, exitCode, imageFiles,
                 pending, queue, results, workerCount, spawned, wimg, wres, started,
                 fetched, acquired, histCall, otherOps, touched, histStart>>

\* mutant: the artifact is written before the text field is looked at
TextReturn_WritesFirst(w) ==
  /\ pc = "pool"
  /\ JSIdle
  /\ wpc[w] = "text"
  /\ LET i == wimg[w]
     IN \E body \in {"text", "notext", "bad"} :
          \/ /\ body = "text"
             /\ \E writeOk \in BOOLEAN :
                  IF writeOk
                    THEN /\ txt' = [txt EXCEPT ![TxtPath(i)] = TextOf(i)]
                         /\ \E unlinkOk \in UnlinkChoices(lock, i) :
                              /\ Unlinks(i, unlinkOk)
                              /\ faults' = faults \cup FaultsOf(i, unlinkOk, TRUE, "")
                         /\ wpc' = [wpc EXCEPT ![w] = "result"]
                         /\ wres' = [wres EXCEPT ![w] = "Success"]
                    ELSE /\ wpc' = [wpc EXCEPT ![w] = "catch"]
                         /\ faults' = faults \cup {<<"txtwrite", i>>}
                         /\ UNCHANGED <<txt, lock, wres, unlinked>>
          \/ /\ body = "notext"
             /\ \E unlinkOk \in UnlinkChoices(lock, i) :
                  /\ Unlinks(i, unlinkOk)
                  /\ faults' = faults \cup {<<"net", i>>} \cup FaultsOf(i, unlinkOk, TRUE, "")
             /\ wpc' = [wpc EXCEPT ![w] = "catch"]
             /\ txt' = [txt EXCEPT ![TxtPath(i)] = OldTxt]
             /\ UNCHANGED wres
          \/ /\ body = "bad"
             /\ wpc' = [wpc EXCEPT ![w] = "catch"]
             /\ faults' = faults \cup {<<"net", i>>}
             /\ UNCHANGED <<txt, lock, wres, unlinked>>
  /\ UNCHANGED <<cfgVars, proxyVars, sideVars, progressFlag, completionFlag, now, pc, exitCode, imageFiles,
                 pending, queue, results, workerCount, spawned, wimg, started,
                 fetched, acquired, histCall, otherOps, touched, histStart>>

\* the awaited response.text() settles; parse, write the artifact, release
TextReturn(w) ==
  /\ pc = "pool"
  /\ JSIdle
  /\ wpc[w] = "text"
  /\ LET i == wimg[w]
     IN \E body \in {"text", "notext", "bad"} :
          \/ /\ body = "text"
             /\ \E writeOk \in BOOLEAN :
                  IF writeOk
                    THEN /\ txt' = [txt EXCEPT ![TxtPath(i)] = TextOf(i)]
                         /\ \E unlinkOk \in UnlinkChoices(lock, i) :
                              /\ Unlinks(i, unlinkOk)
                              /\ faults' = faults \cup FaultsOf(i, unlinkOk, TRUE, "")
                         /\ wpc' = [wpc EXCEPT ![w] = "result"]
                         /\ wres' = [wres EXCEPT ![w] = "Success"]
                    ELSE /\ wpc' = [wpc EXCEPT ![w] = "catch"]
                         /\ faults' = faults \cup {<<"txtwrite", i>>}
                         /\ UNCHANGED <<txt, lock, wres, unlinked>>
          \/ /\ body = "notext"
             /\ \E unlinkOk \in UnlinkChoices(lock, i) :
                  /\ Unlinks(i, unlinkOk)
                  /\ faults' = faults \cup {<<"net", i>>} \cup FaultsOf(i, unlinkOk, TRUE, "")
             /\ wpc' = [wpc EXCEPT ![w] = "catch"]
             /\ UNCHANGED <<txt, wres>>
          \/ /\ body = "bad"
             /\ wpc' = [wpc EXCEPT ![w] = "catch"]
             /\ faults' = faults \cup {<<"net", i>>}
             /\ UNCHANGED <<txt, lock, wres, unlinked>>
  /\ UNCHANGED <<cfgVars, proxyVars, sideVars, progressFlag, completionFlag, now, pc, exitCode, imageFiles,
                 pending, queue, results, workerCount, spawned, wimg, started,
                 fetched, acquired, histCall, otherOps, touched, histStart>>

\* mutant: the catch block returns the failure without removing the marker
Catch_NoRelease(w) ==
  /\ pc \in {"spawn", "pool"}
  /\ wpc[w] = "catch"
  /\ wpc' = [wpc EXCEPT ![w] = "result"]
  /\ wres' = [wres EXCEPT ![w] = "Failure"]
  /\ UNCHANGED <<cfgVars, proxyVars, sideVars, lock, txt, progressFlag, completionFlag, now, pc, exitCode,
                 imageFiles, pending, queue, results, workerCount, spawned, wimg, started,
                 fetched, acquired, faults, unlinked, lastAcquire, lastRemove, otherOps,
                 touched, startLock, startTxt, startTime, prior>>

\* mutant: the failure is thrown on, through the worker and the pool, to main
Catch_Rethrows(w) ==
  /\ pc \in {"spawn", "pool"}
  /\ wpc[w] = "catch"
  /\ pc' = "aborted"
  /\ exitCode' = 1
  /\ UNCHANGED <<cfgVars, proxyVars, sideVars, lock, txt, progressFlag, completionFlag, now,
                 imageFiles, pending, results, poolVars, histTask, histCall, otherOps,
                 touched, histStart>>

\* catch block of performOCR: removeLockFile, return a failure
Catch(w) ==
  /\ pc \in {"spawn", "pool"}
  /\ wpc[w] = "catch"
  /\ LET i == wimg[w]
     IN \E unlinkOk \in UnlinkChoices(lock, i) :
          /\ Unlinks(i, unlinkOk)
          /\ faults' = faults \cup FaultsOf(i, unlinkOk, TRUE, "")
  /\ wpc' = [wpc EXCEPT ![w] = "result"]
  /\ wres' = [wres EXCEPT ![w] = "Failure"]
  /\ UNCHANGED <<cfgVars, proxyVars, sideVars, txt, progressFlag, completionFlag, now, pc, exitCode, imageFiles,
                 pending, queue, results, workerCount, spawned, wimg, started,
                 fetched, acquired, histCall, otherOps, touched, histStart>>

\* the worker resumes after `await performOCR`: count the outcome, take the next image
WorkerResume(w) ==
  /\ pc = "pool"
  /\ JSIdle
  /\ wpc[w] = "result"
  /\ results' = CountOutcome(results, wimg[w], wres[w])
  /\ WorkerLoop(w)
  /\ UNCHANGED <<cfgVars, proxyVars, sideVars, txt, progressFlag, completionFlag, now, pc, exitCode, imageFiles,
                 pending, workerCount, spawned, histCall, otherOps, touched, histStart>>

\* mutant: the pool returns as soon as one worker has finished
PoolReturned_AnyWorker == pc = "pool" /\ \E w \in 1..workerCount : wpc[w] = "exit"

\* await Promise.all(workerPromises) has returned
PoolReturned == pc = "pool" /\ \A w \in 1..workerCount : wpc[w] = "exit"

\* mutant: a run with a failed image exits with 1
Complete_FailedExit ==
  /\ pc = "complete" \/ PoolReturned
  /\ completionFlag' = CompletionData(results)
  /\ progressFlag' = FALSE
  /\ pc' = "done"
  /\ exitCode' = IF results.failed > 0 THEN 1 ELSE 0
  /\ UNCHANGED <<cfgVars, proxyVars, sideVars, lock, txt, now, imageFiles, pending, results,
                 poolVars, histTask, histCall, otherOps, touched, histStart>>

\* main resumes after `await processImagesWithPool`: createCompletionFile
Complete ==
  /\ pc = "complete" \/ PoolReturned
  /\ \E writeOk \in BOOLEAN :
       IF writeOk
         THEN /\ completionFlag' = CompletionData(results)
              /\ \E unlinkOk \in (IF progressFlag THEN BOOLEAN ELSE {TRUE}) :
                   /\ progressFlag' = (progressFlag /\ ~unlinkOk)
                   /\ faults' = faults \cup (IF unlinkOk THEN {} ELSE {<<"flagunlink", 0>>})
         ELSE /\ faults' = faults \cup {<<"flagwrite", 0>>}
              /\ UNCHANGED <<completionFlag, progressFlag>>
  /\ pc' = "done"
  /\ exitCode' = 0
  /\ UNCHANGED <<cfgVars, proxyVars, sideVars, lock, txt, now, imageFiles, pending, results, poolVars,
                 started, fetched, acquired, unlinked, histCall, otherOps, touched,
                 histStart>>

\* ---------------------------------------------------------------------------
\* Environment: the clock and a second instance of the script
\* ---------------------------------------------------------------------------

Running == pc \notin {"done", "aborted"}

Tick ==
  /\ Running
  /\ now < MaxTime
  /\ now' = now + 1
  /\ UNCHANGED <<cfgVars, proxyVars, sideVars, lock, txt, progressFlag, completionFlag, pc, exitCode,
                 imageFiles, pending, results, poolVars, histTask, histCall, otherOps,
                 touched, histStart>>

TouchedAfter(i) == IF pc = "start" THEN touched ELSE touched \cup {i}

\* the other instance calls acquireLock on an image its own scan of the folder
\* has found; a call of the other instance whose own I/O fails changes nothing
\* here and is left out
OtherAcquire(i) ==
  /\ Running
  /\ otherOps < MaxOtherOps
  /\ i \in 1..Len(findImageFiles(rootKind, numFiles))
  /\ lock' = acquireLock(lock, i, "other", staleLockTime, now, TRUE, TRUE).lock
  /\ otherOps' = otherOps + 1
  /\ touched' = TouchedAfter(i)
  /\ UNCHANGED <<cfgVars, proxyVars, sideVars, txt, progressFlag, completionFlag, now, pc, exitCode,
                 imageFiles, pending, results, poolVars, histTask, histCall, histStart>>

\* the other instance calls removeLockFile on an image its scan has found
OtherRelease(i) ==
  /\ Running
  /\ otherOps < MaxOtherOps
  /\ i \in 1..Len(findImageFiles(rootKind, numFiles))
  /\ lock' = removeLockFile(lock, i, TRUE).lock
  /\ otherOps' = otherOps + 1
  /\ touched' = TouchedAfter(i)
  /\ UNCHANGED <<cfgVars, proxyVars, sideVars, txt, progressFlag, completionFlag, now, pc, exitCode,
                 imageFiles, pending, results, poolVars, histTask, histCall, histStart>>

\* ---------------------------------------------------------------------------
\* The lock manager on its own: two instances call it at any time
\* ---------------------------------------------------------------------------

LockAcquire(p, i) ==
  /\ i \in 1..numFiles
  /\ \E unlinkOk \in AcqUnlinkChoices(lock, i, staleLockTime, now),
        writeOk \in AcqWriteChoices(lock, i, staleLockTime, now) :
       /\ lock' = acquireLock(lock, i, p, staleLockTime, now, unlinkOk, writeOk).lock
       /\ lastAcquire' = AcquireCall(lock, i, p, staleLockTime, now, unlinkOk, writeOk)
  /\ UNCHANGED <<cfgVars, proxyVars, sideVars, txt, progressFlag, completionFlag, now, pc, exitCode,
                 imageFiles, pending, results, poolVars, histTask, lastRemove, otherOps,
                 touched, histStart>>

LockRelease(p, i) ==
  /\ i \in 1..numFiles
  /\ \E unlinkOk \in UnlinkChoices(lock, i) :
       /\ lock' = removeLockFile(lock, i, unlinkOk).lock
       /\ lastRemove' = RemoveCall(lock, i, p, unlinkOk)
  /\ UNCHANGED <<cfgVars, proxyVars, sideVars, txt, progressFlag, completionFlag, now, pc, exitCode,
                 imageFiles, pending, results, poolVars, histTask, lastAcquire, otherOps,
                 touched, histStart>>

\* markers of different images are different files: one image is enough here
InitLock ==
  /\ Init
  /\ rootKind = "dir"
  /\ numFiles = 1
  /\ batchSize = 1
  /\ \A s \in Stems : txt[s] = NoTxt

NextLock ==
  \/ Tick
  \/ \E p \in Instances, i \in AllImages : LockAcquire(p, i)
  \/ \E p \in Instances, i \in AllImages : LockRelease(p, i)

SpecLock == InitLock /\ [][NextLock]_vars

\* One run of the script next to the steps of the other instance.  The clock is
\* held during the run: the ages of the markers the run finds are drawn in Init,
\* and a marker written during the run has age 0 until the run ends.
Next ==
  \/ MainStart
  \/ SpawnWorker
  \/ \E w \in Workers : FetchReturn(w)
  \/ \E w \in Workers : TextReturn(w)
  \/ \E w \in Workers : Catch(w)
  \/ \E w \in Workers : WorkerResume(w)
  \/ Complete
  \/ \E i \in AllImages : OtherAcquire(i)
  \/ \E i \in AllImages : OtherRelease(i)

Spec == Init /\ [][Next]_vars

TypeOK ==
  /\ pc \in {"boot", "start", "spawn", "pool", "complete", "done", "aborted"}
  /\ \A w \in Workers : wpc[w] \in {"idle", "fetch", "text", "catch", "result", "exit"}
  /\ now \in 0..MaxTime


\* ---------------------------------------------------------------------------
\* main before the validation of the root, and the callers of the ProxyManager
\* ---------------------------------------------------------------------------

runVars == <<cfgVars, lock, txt, progressFlag, completionFlag, exitCode, imageFiles,
             pending, results, poolVars, histTask, histCall, otherOps, touched,
             histStart>>

Mgr == Manager(proxies, currentIndex, lastRefresh, proxyCache)

SetManager(m) ==
  /\ proxies' = m.proxies
  /\ currentIndex' = m.currentIndex
  /\ lastRefresh' = m.lastRefresh
  /\ proxyCache' = m.cache

\* if (config.useProxy) { proxyManager = new ProxyManager(config); await init() }
\* resp is what the refresh of init meets, if init comes to it
ProxyInitWith(resp) ==
  /\ pc = "boot"
  /\ pc' = "start"
  /\ IF useProxy
       THEN /\ SetManager(init(Mgr, resp, now))
            /\ listFetched' = (~CacheUnreadable(Mgr) /\ ~CacheUsable(Mgr, now))
       ELSE UNCHANGED <<mgrVars, listFetched>>
  /\ UNCHANGED <<runVars, sideVars, now, useProxy, held, waiting, lastGet, disturbed, evicted,
                 evictedNow>>

ProxyInit == \E resp \in Responses : ProxyInitWith(resp)

\* lists a cache file left by an earlier process can hold
CachedLists == {<<Entry(1, 0)>>, <<Entry(1, SkipLimit), Entry(2, SkipLimit)>>}

\* no cache file, one written just now, one written 30 minutes ago, one left
\* empty by the removal of its last entry, one that is not JSON
InitialCaches ==
  {NoCache, CacheOf(0, <<>>), BrokenCache}
    \cup {CacheOf(t, list) : t \in {0, 0 - HalfHour}, list \in CachedLists}

\* the process at the first statement of main, on a root of at most one image
InitBoot ==
  /\ InitRun
  /\ numFiles <= 1
  /\ batchSize = 1
  /\ pc = "boot"
  /\ useProxy \in BOOLEAN
  /\ proxyCache \in InitialCaches
  /\ NewManager
  /\ NoScan

InitStartup == InitBoot /\ proxyRetries = MaxRetries

\* init has returned and the manager exists
ManagerReady == pc = "start" /\ useProxy

\* calls of getProxy under way and entries held by the calls of fetchWithProxy
InFlight ==
  LET Sum[n \in 0..MaxProxies] == IF n = 0 THEN 0 ELSE Sum[n - 1] + held[n]
  IN Sum[MaxProxies] + waiting["r1"] + waiting["r2"]

\* getProxy reaches `await this.refreshProxies()` at call site k
Suspend(k) ==
  /\ waiting' = [waiting EXCEPT ![k] = @ + 1]
  /\ listFetched' = TRUE
  /\ UNCHANGED <<mgrVars, held, lastGet, disturbed, evicted, evictedNow>>

\* the selection ends: an entry is returned to the caller, or a TypeError raised
Returned(r, aft) ==
  /\ SetManager(r.m)
  /\ lastGet' = [kind |-> r.kind, addr |-> r.addr, pos |-> r.pos, after |-> aft]
  /\ held' = IF r.kind \in {"entry", "reset"} THEN [held EXCEPT ![r.addr] = @ + 1]
                                               ELSE held

\* a call of fetchWithProxy calls getProxy, which runs to its first await or to
\* its end
GetProxyCall ==
  /\ ManagerReady
  /\ InFlight < MaxCalls
  /\ IF now - lastRefresh > HalfHour
       THEN Suspend("r1")
       ELSE IF Len(proxies) = 0
         THEN Suspend("r2")
         ELSE LET r == select(Mgr)
              IN /\ Returned(r, IF ~disturbed /\ lastGet.kind \in {"entry", "reset"}
                                   THEN lastGet.kind ELSE "none")
                 /\ disturbed' = (disturbed /\ r.kind = "typeerror")
                 /\ UNCHANGED <<waiting, listFetched, evicted, evictedNow>>
  /\ UNCHANGED <<runVars, sideVars, now, pc, useProxy>>

\* the refresh awaited at call site k settles and getProxy runs to its end: a
\* failed refresh is thrown on at the first site and gives null at the second,
\* also when it failed after it had replaced the list
RefreshReturn(k, resp) ==
  /\ ManagerReady
  /\ waiting[k] > 0
  /\ waiting' = [waiting EXCEPT ![k] = @ - 1]
  /\ LET f == refreshProxies(Mgr, resp, now)
     IN IF f.threw
          THEN /\ lastGet' = [kind |-> IF k = "r1" THEN "throw" ELSE "null",
                              addr |-> 0, pos |-> 0, after |-> "none"]
               /\ SetManager(f.m)
               /\ evictedNow' = IF f.m.proxies = proxies THEN evictedNow ELSE {}
               /\ UNCHANGED <<held, disturbed>>
          ELSE /\ Returned(select(f.m), "none")
               /\ disturbed' = FALSE
               /\ evictedNow' = {}
  /\ UNCHANGED <<runVars, sideVars, now, pc, useProxy, listFetched, evicted>>

\* the request through the entry of address a failed: markProxyFailed(proxy)
MarkFailed(a) ==
  /\ ManagerReady
  /\ held[a] > 0
  /\ held' = [held EXCEPT ![a] = @ - 1]
  /\ LET m == markProxyFailed(Mgr, a)
         n == IndexOf(proxies, a)
         gone == n # 0 /\ proxies[n].fails + 1 >= EvictLimit
     IN /\ SetManager(m)
        /\ evicted' = IF gone THEN evicted \cup {a} ELSE evicted
        /\ evictedNow' = IF gone THEN evictedNow \cup {a} ELSE evictedNow
        /\ disturbed' = (disturbed \/ gone)
  /\ UNCHANGED <<runVars, sideVars, now, pc, useProxy, waiting, listFetched, lastGet>>

\* the request through the entry of address a succeeded: the entry is dropped
Release(a) ==
  /\ ManagerReady
  /\ held[a] > 0
  /\ held' = [held EXCEPT ![a] = @ - 1]
  /\ UNCHANGED <<runVars, sideVars, now, pc, useProxy, mgrVars, waiting, histProxy>>

\* main from its first statement
NextStartup ==
  \/ ProxyInit
  \/ Next

SpecStartup == InitStartup /\ [][NextStartup]_vars

\* the manager on its own: init, then up to MaxCalls calls of fetchWithProxy
\* at a time use it while the clock runs
InitProxy ==
  /\ InitStartup
  /\ useProxy
  /\ rootKind = "dir"
  /\ numFiles = 0
  /\ staleLockTime = 1

NextProxy ==
  \/ ProxyInit
  \/ GetProxyCall
  \/ \E k \in CallSites, resp \in Responses : RefreshReturn(k, resp)
  \/ \E a \in Addrs : MarkFailed(a)
  \/ \E a \in Addrs : Release(a)
  \/ Tick

SpecProxy == InitProxy /\ [][NextProxy]_vars


\* ---------------------------------------------------------------------------
\* fetchWithProxy(url, options, retries)
\* ---------------------------------------------------------------------------

\* how a request can end: a 2xx response, another response, a transport error
Settled == {"ok", "notok", "error"}

\* where a call goes on after a synchronous stretch: the manager it leaves, the
\* await it stops at, its proxy variable, the request it has issued and how the
\* getProxy call it made ended
Stop(m, at, px, req, got) == [m |-> m, pc |-> at, proxy |-> px, req |-> req, got |-> got]

\* mutant: the catch block marks nothing
Caught_NoMark(m, px, got) == Stop(m, "sleep", px, "none", got)

\* the catch block of the loop: the proxy variable, if set, is marked as failed,
\* then the call sleeps
Caught(m, px, got) ==
  Stop(IF px # 0 THEN markProxyFailed(m, px) ELSE m, "sleep", px, "none", got)

\* getProxy selects on a list that is not empty: the entry is assigned to proxy
\* and the request made through it; a TypeError of the selection is caught
Selected(m, px) ==
  LET r == select(m)
  IN IF r.kind = "typeerror"
       THEN Caught(r.m, px, "throw")
       ELSE Stop(r.m, "proxied", r.addr, "proxied", "entry")

\* mutant: the loop makes one attempt more than retries
Iterate_OneMore(m, t, a, px, retries) ==
  IF a > retries
    THEN Stop(m, "direct", px, "direct", "none")
    ELSE IF t - m.lastRefresh > HalfHour
      THEN Stop(m, "r1", px, "none", "none")
      ELSE IF Len(m.proxies) = 0
        THEN Stop(m, "r2", px, "none", "none")
        ELSE Selected(m, px)

\* the head of the for loop with counter a, up to the first await: past the
\* last attempt the direct request is made; otherwise getProxy is called and
\* stops at one of its two refreshes or selects
Iterate(m, t, a, px, retries) ==
  IF a >= retries
    THEN Stop(m, "direct", px, "direct", "none")
    ELSE IF t - m.lastRefresh > HalfHour
      THEN Stop(m, "r1", px, "none", "none")
      ELSE IF Len(m.proxies) = 0
        THEN Stop(m, "r2", px, "none", "none")
        ELSE Selected(m, px)

\* the refresh awaited by getProxy at site k has settled: at the first site its
\* error is thrown on into the catch block of the loop; at the second it makes
\* getProxy return null, and the request is made without proxy and returned
Refreshed(m, resp, t, k, px) ==
  LET f == refreshProxies(m, resp, t)
  IN IF ~f.threw
       THEN Selected(f.m, px)
       ELSE IF k = "r1"
         THEN Caught(f.m, px, "throw")
         ELSE Stop(f.m, "plain", 0, "direct", "null")

\* the call c goes on as s says
Goes(c, s) ==
  /\ SetManager(s.m)
  /\ fpc' = [fpc EXCEPT ![c] = s.pc]
  /\ proxy' = [proxy EXCEPT ![c] = s.proxy]
  /\ proxied' = [proxied EXCEPT ![c] = IF s.req = "proxied" THEN @ + 1 ELSE @]
  /\ direct' = [direct EXCEPT ![c] = IF s.req = "direct" THEN @ + 1 ELSE @]
  /\ seen' = [seen EXCEPT ![c] = IF s.got = "none" THEN @ ELSE @ \cup {s.got}]

\* the call c ends with a response or an error
Ends(c, o) ==
  /\ fpc' = [fpc EXCEPT ![c] = "idle"]
  /\ outcome' = [outcome EXCEPT ![c] = o]
  /\ UNCHANGED <<mgrVars, attempt, proxy, proxied, direct, seen>>

\* what the actions of the calls of fetchWithProxy leave alone
restVars == <<runVars, pc, useProxy, held, waiting, histProxy, scanVars, lpc>>

\* the task c calls fetchWithProxy(url, options, config.proxyRetries), which
\* performOCR does once
FetchCall(c) ==
  /\ pc = "start"
  /\ fpc[c] = "idle"
  /\ outcome[c] = "none"
  /\ attempt' = [attempt EXCEPT ![c] = 0]
  /\ UNCHANGED outcome
  /\ LET s == IF useProxy THEN Iterate(Mgr, now, 0, 0, proxyRetries)
                          ELSE Stop(Mgr, "plain", 0, "direct", "none")
     IN /\ SetManager(s.m)
        /\ fpc' = [fpc EXCEPT ![c] = s.pc]
        /\ proxy' = [proxy EXCEPT ![c] = s.proxy]
        /\ proxied' = [proxied EXCEPT ![c] = IF s.req = "proxied" THEN 1 ELSE 0]
        /\ direct' = [direct EXCEPT ![c] = IF s.req = "direct" THEN 1 ELSE 0]
        /\ seen' = [seen EXCEPT ![c] = IF s.got = "none" THEN {} ELSE {s.got}]
  /\ UNCHANGED <<restVars, now>>

\* the refresh awaited inside getProxy settles
RefreshSettles(c, resp) ==
  /\ fpc[c] \in CallSites
  /\ Goes(c, Refreshed(Mgr, resp, now, fpc[c], proxy[c]))
  /\ UNCHANGED <<restVars, now, attempt, outcome>>

\* mutant: a 2xx response through the proxy is handled as a failure
ProxiedSettles_IgnoresOk(c, o) ==
  /\ fpc[c] = "proxied"
  /\ Goes(c, Caught(Mgr, proxy[c], "none"))
  /\ UNCHANGED <<restVars, now, attempt, outcome>>

\* the request through the proxy settles: a 2xx response is returned; another
\* response or an error goes to the catch block
ProxiedSettles(c, o) ==
  /\ fpc[c] = "proxied"
  /\ IF o = "ok"
       THEN Ends(c, "ok")
       ELSE Goes(c, Caught(Mgr, proxy[c], "none")) /\ UNCHANGED <<attempt, outcome>>
  /\ UNCHANGED <<restVars, now>>

\* mutant: the loop counter is not advanced
Wakes_SameAttempt(c) ==
  /\ fpc[c] = "sleep"
  /\ Goes(c, Iterate(Mgr, now, attempt[c], proxy[c], proxyRetries))
  /\ UNCHANGED <<restVars, now, attempt, outcome>>

\* sleep(1000) is over: attempt++ and the loop goes round
Wakes(c) ==
  /\ fpc[c] = "sleep"
  /\ attempt' = [attempt EXCEPT ![c] = @ + 1]
  /\ Goes(c, Iterate(Mgr, now, attempt[c] + 1, proxy[c], proxyRetries))
  /\ UNCHANGED <<restVars, now, outcome>>

\* the direct request after the loop settles: a 2xx response is returned, any
\* other outcome is thrown
DirectSettles(c, o) ==
  /\ fpc[c] = "direct"
  /\ Ends(c, IF o = "ok" THEN "ok" ELSE "error")
  /\ UNCHANGED <<restVars, now>>

\* mutant: a response that is not 2xx is thrown as an error
PlainSettles_ChecksStatus(c, o) ==
  /\ fpc[c] = "plain"
  /\ Ends(c, IF o = "ok" THEN "ok" ELSE "error")
  /\ UNCHANGED <<restVars, now>>

\* `return fetch(url, options)` settles: its outcome is the outcome of the call
PlainSettles(c, o) ==
  /\ fpc[c] = "plain"
  /\ Ends(c, o)
  /\ UNCHANGED <<restVars, now>>

\* a step of the call c
FetchStep(c) ==
  \/ FetchCall(c)
  \/ \E resp \in Responses : RefreshSettles(c, resp)
  \/ \E o \in Settled : ProxiedSettles(c, o)
  \/ Wakes(c)
  \/ \E o \in Settled : DirectSettles(c, o)
  \/ \E o \in Settled : PlainSettles(c, o)

\* the process with any number of retries configured
InitFetch ==
  /\ InitBoot
  /\ rootKind = "dir"
  /\ numFiles = 0
  /\ staleLockTime = 1
  /\ proxyRetries \in 0..MaxRetries

NextFetch ==
  \/ ProxyInit
  \/ Tick
  \/ \E c \in Callers : FetchStep(c)

\* the calls of fetchWithProxy of MaxCallers concurrent tasks
SpecFetch == InitFetch /\ [][NextFetch]_vars


\* ---------------------------------------------------------------------------
\* findImageFiles on a directory tree
\* ---------------------------------------------------------------------------

\* main calls findImageFiles(normalizedPath, config.fileExtensions)
ScanRoot ==
  /\ ~found.done
  /\ found' = [done |-> TRUE, files |-> findImageFilesIn(tree, extensions)]
  /\ UNCHANGED <<runVars, proxyVars, callVars, lpc, now, pc, tree, extensions>>

\* any tree of depth two with up to MaxItems entries per directory
InitScan ==
  /\ InitRun
  /\ rootKind = "dir"
  /\ numFiles = 0
  /\ batchSize = 1
  /\ staleLockTime = 1
  /\ pc = "start"
  /\ useProxy = FALSE
  /\ proxyRetries = MaxRetries
  /\ proxyCache = NoCache
  /\ NewManager
  /\ tree \in Trees
  /\ extensions \in {{"jpg"}, {"jpg", "txt"}}
  /\ found = NotScanned

NextScan == ScanRoot

SpecScan == InitScan /\ [][NextScan]_vars


\* ---------------------------------------------------------------------------
\* acquireLock and removeLockFile, one file system call at a time
\* ---------------------------------------------------------------------------

\* what the steps of the two processes leave alone
lockRest == <<cfgVars, proxyVars, callVars, scanVars, txt, progressFlag, completionFlag,
              pc, exitCode, imageFiles, pending, results, poolVars, histTask,
              histCall, otherOps, touched, histStart>>

\* the process p goes to position at, the marker of image 1 becomes mk
Moves(p, at, mk) ==
  /\ lpc' = [lpc EXCEPT ![p] = at]
  /\ lock' = [lock EXCEPT ![1] = mk]
  /\ UNCHANGED <<lockRest, now>>

\* acquireLock: if (!fs.existsSync(lockFilePath))
AcquireExists(p) ==
  /\ lpc[p] = "out"
  /\ Moves(p, IF isFileLocked(lock, 1) THEN "stale" ELSE "create", lock[1])

\* isLockStale: if (!fs.existsSync(lockFilePath)) return false
StaleExists(p) ==
  /\ lpc[p] = "stale"
  /\ Moves(p, IF isFileLocked(lock, 1) THEN "stat" ELSE "out", lock[1])

\* isLockStale: statSync and the comparison of the age; statSync of a marker
\* that has gone throws and the catch returns false
StaleStat(p) ==
  /\ lpc[p] = "stat"
  /\ Moves(p, IF isLockStale(lock, 1, staleLockTime, now) THEN "rmexists" ELSE "out",
           lock[1])

\* removeLockFile called by acquireLock: if (fs.existsSync(lockFilePath))
OverrideExists(p) ==
  /\ lpc[p] = "rmexists"
  /\ Moves(p, IF isFileLocked(lock, 1) THEN "rmunlink" ELSE "create", lock[1])

\* removeLockFile called by acquireLock: unlinkSync; its failure is caught
OverrideUnlink(p) ==
  /\ lpc[p] = "rmunlink"
  /\ \E unlinkOk \in BOOLEAN : Moves(p, "create", removeLockFile(lock, 1, unlinkOk).lock[1])

\* createLockFile: writeFileSync creates the marker or overwrites the one that is
\* there; acquireLock returns its result
Create(p) ==
  /\ lpc[p] = "create"
  /\ \E writeOk \in BOOLEAN :
       LET r == createLockFile(lock, 1, p, now, writeOk)
       IN Moves(p, IF r.ret THEN "in" ELSE "out", r.lock[1])

\* removeLockFile called by the holder: if (fs.existsSync(lockFilePath))
ReleaseExists(p) ==
  /\ lpc[p] = "in"
  /\ Moves(p, IF isFileLocked(lock, 1) THEN "unlink" ELSE "out", lock[1])

\* removeLockFile called by the holder: unlinkSync, of whatever marker is there
ReleaseUnlink(p) ==
  /\ lpc[p] = "unlink"
  /\ \E unlinkOk \in BOOLEAN : Moves(p, "out", removeLockFile(lock, 1, unlinkOk).lock[1])

\* the clock of the two processes
LockTick ==
  /\ now < MaxTime
  /\ now' = now + 1
  /\ UNCHANGED <<lockRest, lock, lpc>>

LockStep(p) ==
  \/ AcquireExists(p)
  \/ StaleExists(p)
  \/ StaleStat(p)
  \/ OverrideExists(p)
  \/ OverrideUnlink(p)
  \/ Create(p)
  \/ ReleaseExists(p)
  \/ ReleaseUnlink(p)

\* one image, with or without a marker left by an earlier process
InitMutex ==
  /\ InitLock
  /\ staleLockTime = 1

NextMutex ==
  \/ LockTick
  \/ \E p \in Instances : LockStep(p)

SpecMutex == InitMutex /\ [][NextMutex]_vars


\* ---------------------------------------------------------------------------
\* A second run on the same folder
\* ---------------------------------------------------------------------------

\* the script is started again after a complete run, at once or so much later
\* that every marker left is stale, with the same arguments: a new process finds
\* the markers, the artifacts and the flags as the first run left them
Rerun ==
  /\ pc = "done"
  /\ prior = <<>>
  /\ prior' = results.details
  /\ pc' = "start"
  /\ exitCode' = -1
  /\ now' \in {now, MaxTime}
  /\ imageFiles' = <<>>
  /\ pending' = <<>>
  /\ queue' = <<>>
  /\ results' = EmptyResults
  /\ workerCount' = 0
  /\ spawned' = 0
  /\ wpc' = [w \in Workers |-> "idle"]
  /\ wimg' = [w \in Workers |-> 0]
  /\ wres' = [w \in Workers |-> "none"]
  /\ started' = [i \in AllImages |-> 0]
  /\ fetched' = [i \in AllImages |-> 0]
  /\ acquired' = {}
  /\ faults' = {}
  /\ unlinked' = [i \in AllImages |-> 0]
  /\ startLock' = lock
  /\ startTxt' = txt
  /\ startTime' = now'
  /\ UNCHANGED <<cfgVars, proxyVars, sideVars, lock, txt, progressFlag, completionFlag,
                 histCall, otherOps, touched>>

\* the run and, when it is complete, a second run; no other process works on
\* the folder
NextRerun ==
  \/ MainStart
  \/ SpawnWorker
  \/ \E w \in Workers : FetchReturn(w)
  \/ \E w \in Workers : TextReturn(w)
  \/ \E w \in Workers : Catch(w)
  \/ \E w \in Workers : WorkerResume(w)
  \/ Complete
  \/ Rerun

SpecRerun == Init /\ [][NextRerun]_vars


\* ---------------------------------------------------------------------------
\* Properties
\* ---------------------------------------------------------------------------

Range(q) == {q[n] : n \in 1..Len(q)}

\* number of entries of results.details about image i with outcome k
Entries(i, k) ==
  Cardinality({n \in 1..Len(results.details) :
                 results.details[n].img = i /\ results.details[n].kind = k})

EntriesOf(i) ==
  Cardinality({n \in 1..Len(results.details) : results.details[n].img = i})

Fresh(pid, t) == [owner |-> pid, mtime |-> t]

\* C6 as stated: acquireLock creates a marker and returns true when none exists,
\* replaces a marker older than W minutes by a fresh one and returns true, and
\* otherwise returns false leaving the marker as it is.
C6_Original ==
  lastAcquire.valid =>
    LET c == lastAcquire
        stale == (c.t - c.pre.mtime) > c.W
    IN /\ c.pre = NoLock => (c.ret /\ c.post = Fresh(c.by, c.t))
       /\ (c.pre # NoLock /\ stale) => (c.ret /\ c.post = Fresh(c.by, c.t))
       /\ (c.pre # NoLock /\ ~stale) => (~c.ret /\ c.post = c.pre)

\* C6 amended: the two creating branches return true and leave a fresh marker
\* exactly when the write of the marker succeeds; when that write fails
\* acquireLock returns false, with no marker created and a stale marker already
\* deleted (unless its deletion failed too); a marker that is not older than W
\* minutes is left unchanged and the result is false.
C6_AcquireLock ==
  lastAcquire.valid =>
    LET c == lastAcquire
        stale == (c.t - c.pre.mtime) > c.W
    IN /\ (c.pre = NoLock /\ c.writeOk) => (c.ret /\ c.post = Fresh(c.by, c.t))
       /\ (c.pre = NoLock /\ ~c.writeOk) => (~c.ret /\ c.post = NoLock)
       /\ (c.pre # NoLock /\ stale /\ c.writeOk) => (c.ret /\ c.post = Fresh(c.by, c.t))
       /\ (c.pre # NoLock /\ stale /\ ~c.writeOk) =>
            (~c.ret /\ c.post = (IF c.unlinkOk THEN NoLock ELSE c.pre))
       /\ (c.pre # NoLock /\ ~stale) => (~c.ret /\ c.post = c.pre)

\* a stale marker of the other instance has been overridden
C6_Witness ==
  /\ lastAcquire.valid
  /\ lastAcquire.pre # NoLock
  /\ lastAcquire.pre.owner # lastAcquire.by
  /\ (lastAcquire.t - lastAcquire.pre.mtime) > lastAcquire.W
  /\ lastAcquire.ret
  /\ lock[lastAcquire.img] = Fresh(lastAcquire.by, lastAcquire.t)

\* C7 as stated: a marker created at T is overridable at every t >= T+W, the
\* instant T+W included, and at no t < T+W.
C7_Original ==
  (lastAcquire.valid /\ lastAcquire.pre # NoLock /\ lastAcquire.writeOk) =>
    (lastAcquire.ret <=> lastAcquire.t >= lastAcquire.pre.mtime + lastAcquire.W)

\* C7 amended: a marker created at T is overridable at every t > T+W and at no
\* t <= T+W: at exactly T+W it is still held.
C7_Staleness ==
  (lastAcquire.valid /\ lastAcquire.pre # NoLock) =>
    LET c == lastAcquire
    IN /\ (c.t > c.pre.mtime + c.W /\ c.writeOk) => (c.ret /\ c.post = Fresh(c.by, c.t))
       /\ c.t <= c.pre.mtime + c.W => (~c.ret /\ c.post = c.pre)

\* acquireLock was called on a marker of age exactly W
C7_Witness ==
  /\ lastAcquire.valid
  /\ lastAcquire.pre # NoLock
  /\ lastAcquire.t = lastAcquire.pre.mtime + lastAcquire.W
  /\ ~lastAcquire.ret

\* C8: removeLockFile deletes a present marker whoever owns it and returns true;
\* a failed deletion returns false and leaves the marker; with no marker it
\* changes nothing and returns true.
C8_RemoveLockFile ==
  lastRemove.valid =>
    LET c == lastRemove
    IN /\ (c.pre # NoLock /\ c.unlinkOk) => (c.ret /\ c.post = NoLock)
       /\ (c.pre # NoLock /\ ~c.unlinkOk) => (~c.ret /\ c.post = c.pre)
       /\ c.pre = NoLock => (c.ret /\ c.post = NoLock)

\* an instance deleted the marker that the other instance created
C8_Witness ==
  /\ lastRemove.valid
  /\ lastRemove.pre # NoLock
  /\ lastRemove.pre.owner # lastRemove.by
  /\ lastRemove.ret
  /\ lastRemove.post = NoLock


\* ---- the run ----

RunStarted == pc \notin {"boot", "start"}
RunDone == pc = "done"

\* C1: when the run is complete, successful + failed + skipped + locked equals
\* the number of image files the scan found, in the summary and in the
\* completion marker.
C1_CountsSumToTotal ==
  RunDone =>
    /\ results.successful + results.failed + results.skipped + results.locked
         = Len(imageFiles)
    /\ Len(results.details) = Len(imageFiles)
    /\ completionFlag.present => completionFlag.total = Len(imageFiles)

\* a complete run with two workers and all of success, failure and a
\* pre-classified image
C1_Witness ==
  /\ RunDone
  /\ workerCount = 2
  /\ completionFlag.present
  /\ results.successful >= 1
  /\ results.failed >= 1
  /\ results.skipped + results.locked >= 1

WorkerOutcomes == {"Success", "Failure", "Locked"}

HadArtifact(i) == startTxt[TxtPath(i)] # NoTxt

\* C3: an image whose result artifact exists when the run starts is reported
\* Skipped; no task is started, no marker created and no fetch made for it.
C3_SkippedUntouched ==
  \A i \in 1..numFiles :
    (RunStarted /\ HadArtifact(i)) =>
      /\ Entries(i, "Skipped") = 1
      /\ EntriesOf(i) = 1
      /\ started[i] = 0
      /\ fetched[i] = 0
      /\ i \notin acquired
      /\ i \notin touched => lock[i] = startLock[i]

\* a complete run that skipped an image with an artifact and processed another
C3_Witness ==
  /\ RunDone
  /\ \E i \in 1..numFiles : HadArtifact(i) /\ Entries(i, "Skipped") = 1
  /\ results.successful >= 1

AgeAtStart(i) == startTime - startLock[i].mtime

\* C4: an image with a marker younger than the staleness window and no result
\* artifact when the run starts is reported Locked; no fetch is made for it and
\* the run leaves its marker as it was.
C4_LockedUntouched ==
  \A i \in 1..numFiles :
    (RunStarted /\ ~HadArtifact(i) /\ startLock[i] # NoLock
       /\ AgeAtStart(i) < staleLockTime) =>
      /\ Entries(i, "Locked") = 1
      /\ EntriesOf(i) = 1
      /\ fetched[i] = 0
      /\ i \notin touched => lock[i] = startLock[i]

\* a complete run that reported a freshly locked image and processed another
C4_Witness ==
  /\ RunDone
  /\ \E i \in 1..numFiles :
       /\ ~HadArtifact(i) /\ startLock[i] # NoLock /\ AgeAtStart(i) < staleLockTime
       /\ Entries(i, "Locked") = 1
       /\ lock[i] = startLock[i]
  /\ results.successful >= 1

\* C5 as stated: an image with a marker older than the staleness window and no
\* result artifact when the run starts is processed by that run: the marker is
\* overridden, the fetch is made, and on success no marker remains.
C5_StaleOverridden ==
  \A i \in 1..numFiles :
    (RunDone /\ ~HadArtifact(i) /\ startLock[i] # NoLock
       /\ AgeAtStart(i) > staleLockTime /\ faults = {} /\ otherOps = 0) =>
      /\ started[i] = 1
      /\ fetched[i] = 1
      /\ Entries(i, "Success") = 1
      /\ lock[i] = NoLock

TaskReturned(i) ==
  \/ EntriesOf(i) >= 1
  \/ \E w \in Workers : wimg[w] = i /\ wpc[w] = "result"

\* C9: once a task that acquired the marker of its image has returned, with
\* Success or with Failure at any step, the marker is gone, provided no
\* deletion of it failed and the other instance did not touch it.
C9_LockReleasedOnReturn ==
  \A i \in acquired :
    (TaskReturned(i) /\ <<"unlink", i>> \notin faults /\ i \notin touched) =>
      lock[i] = NoLock

\* a task that acquired its marker failed at writing the artifact and returned
C9_Witness ==
  \E w \in Workers :
    /\ wpc[w] = "result"
    /\ wres[w] = "Failure"
    /\ wimg[w] \in acquired
    /\ <<"txtwrite", wimg[w]>> \in faults
    /\ lock[wimg[w]] = NoLock

Artifacts == {s \in Stems : txt[s] # NoTxt}

\* C10 as stated: with N images, none locked and none processed before, every
\* fetch succeeding and no other process in the folder, the run ends with N
\* result artifacts, a completion marker reporting successful = N and no marker.
C10_AllSucceed ==
  (/\ RunDone
   /\ \A i \in 1..numFiles : startLock[i] = NoLock /\ ~HadArtifact(i)
   /\ faults = {}
   /\ otherOps = 0) =>
    /\ Cardinality(Artifacts) = numFiles
    /\ completionFlag = [present |-> TRUE, total |-> numFiles, successful |-> numFiles,
                         failed |-> 0, skipped |-> 0, locked |-> 0]
    /\ \A i \in AllImages : lock[i] = NoLock

\* ---- failures and exits ----

\* the task of image i failed: the image could not be read, the request or its
\* answer failed, or the artifact could not be written
FailedTask(i) == \E k \in {"read", "net", "txtwrite"} : <<k, i>> \in faults

\* C11: a failure of one image never aborts the batch: the outcome of a task that
\* fails at any step is Failure, the error reaches neither the pool nor main (no
\* worker leaves while the queue holds images, the run is only ever aborted
\* before a task has started, a complete run exits with 0), and every pending
\* image has its own outcome when the run is complete.
C11_FailureContained ==
  /\ \A i \in AllImages :
       (FailedTask(i) /\ TaskReturned(i)) =>
         /\ Entries(i, "Success") = 0 /\ Entries(i, "Locked") = 0
         /\ \/ Entries(i, "Failure") = 1
            \/ \E w \in Workers : wimg[w] = i /\ wpc[w] = "result" /\ wres[w] = "Failure"
  /\ \A w \in Workers : wpc[w] = "exit" => queue = <<>>
  /\ pc = "aborted" => \A i \in AllImages : started[i] = 0
  /\ RunDone =>
       /\ exitCode = 0
       /\ \A i \in Range(pending) : EntriesOf(i) = 1

\* a complete run in which a task failed and a task started later succeeded
C11_Witness ==
  /\ RunDone
  /\ exitCode = 0
  /\ \E n, m \in 1..Len(results.details) :
       /\ n < m
       /\ results.details[n].kind = "Failure"
       /\ FailedTask(results.details[n].img)
       /\ results.details[m].kind = "Success"

Exited == exitCode # -1

C13_AbortBeforeWork ==
  pc = "aborted" =>
    /\ acquired = {}
    /\ lock = startLock
    /\ ~listFetched
    /\ \A i \in AllImages : fetched[i] = 0
    /\ txt = startTxt
    /\ ~completionFlag.present

\* C14 as stated: when the root path does not exist the run aborts with a
\* non-zero exit code and no in-progress marker has been written.
C14_NoMarkerOnMissingRoot ==
  (pc = "aborted" /\ rootKind = "missing") => (exitCode # 0 /\ ~progressFlag)

\* C15 as stated: the in-progress marker is absent whenever no run is active
\* (before the run, after a complete run, after an aborted run), and it is gone
\* once the completion marker is written.
C15_MarkerOnlyWhileActive ==
  /\ pc \in {"boot", "done", "aborted"} => ~progressFlag
  /\ completionFlag.present => ~progressFlag

\* ---- the proxy manager ----

\* a call of getProxy whose selection runs on the list as it stands
DirectSelection ==
  /\ GetProxyCall
  /\ now - lastRefresh <= HalfHour
  /\ Len(proxies) > 0

\* a call of getProxy whose selection runs on a list just fetched
RefreshedSelection ==
  /\ \E k \in CallSites, resp \in Responses : RefreshReturn(k, resp)
  /\ lastGet'.kind \notin {"null", "throw"}

AllSkipped(ps) == \A n \in 1..Len(ps) : ps[n].fails >= SkipLimit

\* C16 as stated: getProxy never returns an entry whose failure count is 3 or
\* more unless every entry of the list has such a count; in that case it sets
\* every count to 0 and returns the first entry of the list.
C16_SelectionRule ==
  [][/\ DirectSelection =>
          IF AllSkipped(proxies)
            THEN /\ lastGet'.kind = "reset"
                 /\ lastGet'.pos = 0
                 /\ lastGet'.addr = proxies[1].addr
                 /\ Len(proxies') = Len(proxies)
                 /\ \A n \in 1..Len(proxies) : proxies'[n] = Entry(proxies[n].addr, 0)
            ELSE /\ lastGet'.kind # "reset"
                 /\ lastGet'.kind = "entry" =>
                      /\ proxies[lastGet'.pos + 1].fails < SkipLimit
                      /\ proxies[lastGet'.pos + 1].addr = lastGet'.addr
                      /\ proxies' = proxies
     /\ RefreshedSelection =>
          /\ lastGet'.kind = "entry"
          /\ proxies'[lastGet'.pos + 1] = Entry(lastGet'.addr, 0)
    ]_vars

\* position of the first entry with a count below 3, in cyclic order from c
FirstOk(ps, c) ==
  LET At(k) == ps[((c + k) % Len(ps)) + 1]
      k == CHOOSE k \in 0..(Len(ps) - 1) :
             At(k).fails < SkipLimit /\ \A j \in 0..(k - 1) : At(j).fails >= SkipLimit
  IN (c + k) % Len(ps)

\* the call before this one returned an entry and neither an eviction nor a
\* refresh has happened since
InSequence == lastGet.kind \in {"entry", "reset"} /\ ~disturbed

\* C17 as stated: with no eviction or refresh between calls, each call starts
\* just after the entry returned by the call before it and returns the first
\* entry with a count below 3 in cyclic list order from there.
C17_Original ==
  [][(DirectSelection /\ InSequence /\ ~AllSkipped(proxies)) =>
       /\ lastGet'.kind = "entry"
       /\ lastGet'.pos = FirstOk(proxies, (lastGet.pos + 1) % Len(proxies))
    ]_vars

\* C17 amended: with no eviction or refresh between calls, each call starts at
\* the cursor and returns the first entry with a count below 3 in cyclic list
\* order from there, leaving the cursor just after it; the cursor is just after
\* the entry returned by the call before, except when that call found every
\* count at 3 or more: it then returned the first entry of the list and left the
\* cursor where it was.
C17_RoundRobin ==
  [][(DirectSelection /\ InSequence) =>
       /\ currentIndex < Len(proxies)
       /\ lastGet.kind = "entry" => currentIndex = (lastGet.pos + 1) % Len(proxies)
       /\ ~AllSkipped(proxies) =>
            /\ lastGet'.kind = "entry"
            /\ lastGet'.pos = FirstOk(proxies, currentIndex)
            /\ currentIndex' = (lastGet'.pos + 1) % Len(proxies)
    ]_vars

\* two calls in sequence on a list of two entries: the second has skipped the
\* entry with three failures and come round to the first entry again
C17_Witness ==
  /\ lastGet.kind = "entry"
  /\ lastGet.after = "entry"
  /\ Len(proxies) = 2
  /\ lastGet.pos = 0
  /\ currentIndex = 1
  /\ proxies[1].fails < SkipLimit
  /\ proxies[2].fails >= SkipLimit
  /\ held[proxies[2].addr] = 0

InPool(ps, a) == \E n \in 1..Len(ps) : ps[n].addr = a

\* C18 as stated: getProxy returns null only when the list is empty after a
\* refresh attempt; when the list holds an entry at the start of the selection,
\* getProxy returns an entry of the list.
C18_NullOnlyWhenEmpty ==
  [][/\ DirectSelection =>
          /\ lastGet'.kind \in {"entry", "reset"}
          /\ InPool(proxies, lastGet'.addr)
     /\ RefreshedSelection =>
          /\ lastGet'.kind \in {"entry", "reset"}
          /\ InPool(proxies', lastGet'.addr)
     /\ ((\E k \in CallSites, resp \in Responses : RefreshReturn(k, resp))
           /\ lastGet'.kind = "null") => Len(proxies') = 0
    ]_vars

EntryReturned ==
  /\ DirectSelection \/ RefreshedSelection
  /\ lastGet'.kind \in {"entry", "reset"}

FailsOf(ps, a) == ps[IndexOf(ps, a)].fails

\* a step after which the entry of some address has a smaller count than before
CountDecreases ==
  \E a \in Addrs :
    /\ InPool(proxies, a)
    /\ InPool(proxies', a)
    /\ FailsOf(proxies', a) < FailsOf(proxies, a)

\* getProxy found every count at 3 or more and set every count to 0
FullReset == DirectSelection /\ lastGet'.kind = "reset"

\* a refresh of getProxy fetched a page with https rows and replaced the list
ListReplaced ==
  \E k \in CallSites, resp \in Responses :
    /\ RefreshReturn(k, resp)
    /\ resp.ok
    /\ Len(ParseRows(resp.rows)) > 0

\* C21 as stated: the failure count of each entry, identified by its address,
\* never decreases between two full resets, over any sequence of init, getProxy,
\* markProxyFailed and refreshes.
C21_Original ==
  [][CountDecreases => FullReset]_vars

\* C21 amended: the failure count of each entry, identified by its address,
\* decreases only in a full reset of getProxy or in a refresh that replaces the
\* list, and both leave every entry of the list with a count of 0; init and
\* markProxyFailed never decrease a count.
C21_CountsMonotone ==
  [][CountDecreases =>
       /\ FullReset \/ ListReplaced
       /\ \A n \in 1..Len(proxies') : proxies'[n].fails = 0
    ]_vars

\* after a full reset the entry that was returned has failed again: its count
\* has grown from 0 while the other entry is still at 0
C21_Witness ==
  /\ lastGet.kind = "reset"
  /\ Len(proxies) = 2
  /\ FailsOf(proxies, lastGet.addr) > 0
  /\ \E n \in 1..Len(proxies) : proxies[n].fails = 0

\* ---- init ----

\* the cache file exists and its timestamp is less than 30 minutes old
CacheFresh == proxyCache.present /\ (now - proxyCache.timestamp) < HalfHour

\* init took the list of the cache file and fetched nothing
CacheTaken ==
  /\ proxies' = proxyCache.proxies
  /\ lastRefresh' = proxyCache.timestamp
  /\ ~listFetched'
  /\ UNCHANGED <<currentIndex, proxyCache>>

\* the rows of the page flagged https, each with a count of 0
HttpsOnly(rows) ==
  LET keep == {n \in 1..Len(rows) : rows[n].https}
      nth(k) == CHOOSE n \in keep : Cardinality({j \in keep : j < n}) = k - 1
  IN [k \in 1..Cardinality(keep) |-> [addr |-> rows[nth(k)].addr, fails |-> 0]]

\* init fetched the page and took and cached its https rows
FreshTaken(resp) ==
  /\ listFetched'
  /\ proxies' = HttpsOnly(resp.rows)
  /\ proxyCache' = [present |-> TRUE, valid |-> TRUE, timestamp |-> now,
                    proxies |-> proxies']
  /\ lastRefresh' = now
  /\ currentIndex' = 0

\* init left the list empty and the cache file as it was
LeftEmpty == proxies' = <<>> /\ proxyCache' = proxyCache

\* C22 as stated: init uses the cached list exactly when the cache file exists
\* and is less than 30 minutes old; otherwise it fetches a fresh list, keeps the
\* https entries with a count of 0 and writes them to the cache; when the fetch
\* fails the list is left empty.
C22_Original ==
  [][\A resp \in Responses :
       (ProxyInitWith(resp) /\ useProxy) =>
         IF CacheFresh
           THEN CacheTaken
           ELSE IF resp.ok THEN FreshTaken(resp) ELSE listFetched' /\ LeftEmpty
    ]_vars

\* C22 amended: init uses the cached list exactly when the cache file exists,
\* is less than 30 minutes old and holds at least one entry; a cache file that
\* cannot be parsed makes init fetch nothing and leave the list empty; otherwise
\* init fetches a fresh list, keeps the https entries with a count of 0 and
\* writes them to the cache; when the fetch fails, the page has no https entry
\* or the cache file cannot be written, the list is left empty. init raises no
\* error in any case.
C22_Init ==
  [][\A resp \in Responses :
       (ProxyInitWith(resp) /\ useProxy) =>
         /\ pc' = "start"
         /\ IF proxyCache.present /\ ~proxyCache.valid
              THEN ~listFetched' /\ LeftEmpty
              ELSE IF CacheFresh /\ Len(proxyCache.proxies) > 0
                THEN CacheTaken
                ELSE IF resp.ok /\ (\E n \in 1..Len(resp.rows) : resp.rows[n].https)
                                /\ resp.saved
                  THEN FreshTaken(resp)
                  ELSE listFetched' /\ LeftEmpty
    ]_vars

\* init fetched a page and took its single https row, an address that no cache
\* file held, and wrote it to the cache file
C22_Witness ==
  /\ pc = "start"
  /\ useProxy
  /\ listFetched
  /\ proxies = <<Entry(2, 0)>>
  /\ proxyCache = CacheOf(now, proxies)
  /\ lastRefresh = now

\* ---- fetchWithProxy ----

\* every getProxy call of the call c has returned an entry
AlwaysProxy(c) == seen[c] \subseteq {"entry"}

GotOk(c) ==
  \/ ProxiedSettles(c, "ok")
  \/ DirectSettles(c, "ok")
  \/ PlainSettles(c, "ok")

\* C24: as soon as a request of fetchWithProxy, through a proxy or direct, gets
\* a 2xx response, the call returns it: no request and no sleep follow, and no
\* proxy is marked as failed.
C24_FirstSuccessReturned ==
  [][\A c \in Callers :
       /\ GotOk(c) =>
            /\ outcome'[c] = "ok"
            /\ fpc'[c] = "idle"
            /\ UNCHANGED <<mgrVars, attempt, proxied, direct>>
       /\ outcome[c] # "none" =>
            /\ fpc'[c] = "idle"
            /\ outcome'[c] = outcome[c]
            /\ proxied'[c] = proxied[c]
            /\ direct'[c] = direct[c]
    ]_vars

\* a call has returned the 2xx response of its second request through a proxy,
\* without a direct request
C24_Witness ==
  \E c \in Callers :
    /\ outcome[c] = "ok"
    /\ proxied[c] = 2
    /\ attempt[c] = 1
    /\ direct[c] = 0

\* a request of the call c through a proxy has just failed
ProxiedFails(c) == ProxiedSettles(c, "notok") \/ ProxiedSettles(c, "error")

\* the entry of address a has one failure more, or has been removed at the limit
Bumped(a) ==
  IF FailsOf(proxies, a) + 1 >= EvictLimit
    THEN ~InPool(proxies', a)
    ELSE InPool(proxies', a) /\ FailsOf(proxies', a) = FailsOf(proxies, a) + 1

\* C25 as stated: when a request through a proxy fails, the count of the entry
\* used has been increased by one before the next getProxy call of the same
\* call of fetchWithProxy.
C25_Original ==
  [][\A c \in Callers :
       ProxiedFails(c) =>
         /\ InPool(proxies, proxy[c])
         /\ Bumped(proxy[c])
         /\ fpc'[c] = "sleep"
    ]_vars

\* C25 amended: when a request through a proxy fails, the entry of the list that
\* has the address of the proxy used has its count increased by one (and is
\* removed at 5) before the call sleeps and before its next getProxy call; when
\* the list holds no entry with that address any more, because an eviction or a
\* refresh on behalf of another call has dropped it, no count changes.
C25_FailureCounted ==
  [][\A c \in Callers :
       ProxiedFails(c) =>
         /\ IF InPool(proxies, proxy[c])
              THEN /\ Bumped(proxy[c])
                   /\ \A a \in Addrs \ {proxy[c]} :
                        /\ InPool(proxies', a) = InPool(proxies, a)
                        /\ InPool(proxies, a) => FailsOf(proxies', a) = FailsOf(proxies, a)
              ELSE UNCHANGED mgrVars
         /\ fpc'[c] = "sleep"
         /\ proxy'[c] = proxy[c]
    ]_vars

\* a call sleeps after its request through a proxy has failed, and the entry it
\* used carries the failure
C25_Witness ==
  \E c \in Callers :
    /\ fpc[c] = "sleep"
    /\ seen[c] = {"entry"}
    /\ proxied[c] = attempt[c] + 1
    /\ InPool(proxies, proxy[c])
    /\ FailsOf(proxies, proxy[c]) >= 1

\* getProxy has just returned null to the call c: its second refresh failed
NullReturned(c) ==
  \E resp \in Responses :
    /\ RefreshSettles(c, resp)
    /\ fpc[c] = "r2"
    /\ refreshProxies(Mgr, resp, now).threw

\* C26: when getProxy returns null, the direct request is made at once in that
\* attempt and its outcome, response or error, is the outcome of fetchWithProxy:
\* the loop counter does not move, no sleep, no request through a proxy and no
\* markProxyFailed follow.
C26_NullGoesDirect ==
  [][\A c \in Callers :
       /\ NullReturned(c) =>
            /\ fpc'[c] = "plain"
            /\ direct'[c] = direct[c] + 1
            /\ proxy'[c] = 0
            /\ UNCHANGED <<attempt, proxied, outcome>>
            /\ proxies' = proxies \/ \A n \in 1..Len(proxies') : proxies'[n].fails = 0
       /\ \A o \in Settled :
            (PlainSettles(c, o) /\ useProxy) =>
              /\ outcome'[c] = o
              /\ fpc'[c] = "idle"
              /\ UNCHANGED <<mgrVars, attempt, proxied, direct>>
    ]_vars

\* a call whose first getProxy call returned null has ended with the response
\* of the direct request, which was not 2xx
C26_Witness ==
  \E c \in Callers :
    /\ useProxy
    /\ seen[c] = {"null"}
    /\ outcome[c] = "notok"
    /\ attempt[c] = 0
    /\ proxied[c] = 0
    /\ direct[c] = 1

\* an await of the call c settles
Settles(c) ==
  \/ \E resp \in Responses : RefreshSettles(c, resp)
  \/ \E o \in Settled : ProxiedSettles(c, o)
  \/ Wakes(c)
  \/ \E o \in Settled : DirectSettles(c, o)
  \/ \E o \in Settled : PlainSettles(c, o)

\* the calls while the clock stands
NextCalls ==
  \/ ProxyInit
  \/ \E c \in Callers : FetchStep(c)

\* every promise a call awaits settles: the requests through a proxy and the
\* fetch of the list carry a timeout, sleep is a timer
FairFetch ==
  /\ InitFetch
  /\ [][NextCalls]_vars
  /\ \A c \in Callers : WF_vars(Settles(c))

\* C30: every call of fetchWithProxy ends, for every retries >= 0 and every
\* sequence of outcomes, after at most `retries` requests through a proxy and at
\* most one direct request.
C30_Terminates ==
  /\ [](\A c \in Callers : proxied[c] <= proxyRetries /\ direct[c] <= 1)
  /\ \A c \in Callers : (fpc[c] # "idle") ~> (fpc[c] = "idle" /\ outcome[c] # "none")

\* with retries = 0 a call has ended after its direct request alone
C30_Witness ==
  /\ useProxy
  /\ proxyRetries = 0
  /\ \E c \in Callers : outcome[c] # "none" /\ proxied[c] = 0 /\ direct[c] = 1

\* ---- the completion marker ----

\* the images that the filtering loop of the run put aside
PreSkipped == {i \in Range(imageFiles) : HadArtifact(i)}
PreLocked == {i \in Range(imageFiles) : ~HadArtifact(i) /\ startLock[i] # NoLock}

\* C27: the completion marker is written only after every started worker has
\* finished: when it is written the queue is empty, no task is in flight, and
\* its counts include the outcome of every pending image together with the
\* Skipped and Locked outcomes of the filtering loop; the in-progress marker is
\* deleted after the completion marker is written, not before.
C27_CompletionAfterPool ==
  [][/\ completionFlag' # completionFlag =>
          /\ queue = <<>>
          /\ spawned = workerCount
          /\ \A w \in Workers : wpc[w] = IF w <= spawned THEN "exit" ELSE "idle"
          /\ \A i \in Range(pending) : \E k \in WorkerOutcomes : Entries(i, k) = 1
          /\ completionFlag'.present
          /\ completionFlag'.total = Len(imageFiles)
          /\ completionFlag'.skipped = Cardinality(PreSkipped)
          /\ completionFlag'.locked =
               Cardinality(PreLocked)
                 + Cardinality({i \in Range(pending) : Entries(i, "Locked") = 1})
          /\ completionFlag'.successful =
               Cardinality({i \in Range(pending) : Entries(i, "Success") = 1})
          /\ completionFlag'.failed =
               Cardinality({i \in Range(pending) : Entries(i, "Failure") = 1})
     /\ (progressFlag /\ ~progressFlag') =>
          /\ completionFlag'.present
          /\ completionFlag' # completionFlag
    ]_vars

\* the completion marker of a run of two workers is written, with the outcomes
\* of two tasks and of an image put aside by the filtering loop, and the
\* in-progress marker is gone
C27_Witness ==
  /\ completionFlag.present
  /\ ~progressFlag
  /\ workerCount = 2
  /\ completionFlag.successful + completionFlag.failed = 2
  /\ Cardinality(PreSkipped) + Cardinality(PreLocked) = 1
  /\ completionFlag.total = 3

\* ---- findImageFiles ----

\* the extension, lower-cased, is in the allow-list
Allowed(e, exts) ==
  \/ e \in {"jpg", "JPG"} /\ "jpg" \in exts
  \/ e = "txt" /\ "txt" \in exts

\* paths of the regular files with an allowed extension listed in a directory
MatchesIn(items, dir, exts) ==
  {Append(dir, k) : k \in {j \in 1..Len(items) :
                             items[j].kind = "file" /\ Allowed(items[j].ext, exts)}}

\* the same at any depth under the root, in the directories that can be listed
MatchesUnder(root, exts) ==
  MatchesIn(root.items, <<>>, exts)
    \cup UNION {MatchesIn(root.items[k].items, <<k>>, exts) :
                  k \in {j \in 1..Len(root.items) :
                           root.items[j].kind = "dir" /\ root.items[j].readable}}

\* C28 as stated: findImageFiles returns exactly the regular files at any depth
\* under the root whose lower-cased extension is in the allow-list, each once,
\* whenever the root itself is readable; only an unreadable root makes the scan
\* yield nothing.
C28_ScanComplete ==
  found.done =>
    IF tree.readable
      THEN /\ Range(found.files) = MatchesUnder(tree, extensions)
           /\ Len(found.files) = Cardinality(MatchesUnder(tree, extensions))
      ELSE found.files = <<>>

\* ---- the markers as a mutex ----

\* no marker has been older than the staleness window: the clock has not moved
\* and the marker found at the start, if any, was fresh
NeverStale == now = 0 /\ ~isLockStale(startLock, 1, staleLockTime, 0)

\* the process is between a successful acquireLock and its removeLockFile
Holds(p) == lpc[p] = "in"

\* C29 as stated: with the file system calls of two processes interleaved in any
\* order and no marker older than the staleness window, at most one process at
\* a time is between a successful acquire and its release.
C29_Mutex ==
  NeverStale => ~(Holds("self") /\ Holds("other"))

\* ---- the release of the marker ----

\* C31 as stated: one invocation of performOCR deletes the marker of its image
\* at most once, as its release, on the success path and on every error path; a
\* marker that another process creates after that release is not removed by it.
C31_ReleasedOnce ==
  \A i \in AllImages : unlinked[i] <= 1

\* ---- the cursor ----

\* C32 as stated: after any sequence of init, getProxy, markProxyFailed and
\* refreshProxies, whenever the list is not empty the cursor satisfies
\* 0 <= currentIndex < length of the list, so getProxy reads an existing entry.
C32_CursorInRange ==
  /\ Len(proxies) > 0 => (0 <= currentIndex /\ currentIndex < Len(proxies))
  /\ lastGet.kind # "typeerror"

\* ---- getProxy after a failed refresh ----

\* a refresh awaited by getProxy has just failed
RefreshFailed ==
  \E k \in CallSites, resp \in Responses :
    /\ RefreshReturn(k, resp)
    /\ refreshProxies(Mgr, resp, now).threw

\* C33 as stated: getProxy raises no error; when a refresh of the list fails, be
\* it the refresh for the age of the list or the refresh for an empty list (also
\* after a failed init), getProxy returns an entry of the existing list or null.
C33_NoErrorFromGetProxy ==
  [][RefreshFailed =>
       \/ lastGet'.kind = "null"
       \/ lastGet'.kind \in {"entry", "reset"} /\ InPool(proxies, lastGet'.addr)
    ]_vars

\* ---- the proxy that the catch block marks ----

\* the getProxy call of an attempt of the call c has just raised an error: the
\* catch block has run although no request was made in this attempt
GetProxyRaises(c) ==
  /\ fpc'[c] = "sleep"
  /\ \/ fpc[c] \in {"idle", "r1", "r2"}
     \/ fpc[c] = "sleep" /\ attempt'[c] = attempt[c] + 1

\* no entry has been marked as failed: the list is as it was, or as the refresh
\* that the call c awaited has left it
NothingMarked(c) ==
  \/ proxies' = proxies
  \/ /\ fpc[c] \in CallSites
     /\ \E resp \in Responses : proxies' = refreshProxies(Mgr, resp, now).m.proxies

\* C34 as stated: in fetchWithProxy each failed attempt marks as failed only the
\* proxy obtained in that same attempt, and once; an attempt in which obtaining
\* a proxy fails marks no proxy.
C34_MarksOwnProxyOnly ==
  [][\A c \in Callers :
       /\ ProxiedFails(c) =>
            \A a \in Addrs \ {proxy[c]} :
              /\ InPool(proxies', a) = InPool(proxies, a)
              /\ InPool(proxies, a) => FailsOf(proxies', a) = FailsOf(proxies, a)
       /\ (ProxiedFails(c) /\ InPool(proxies, proxy[c])) =>
            IF FailsOf(proxies, proxy[c]) + 1 >= EvictLimit
              THEN ~InPool(proxies', proxy[c])
              ELSE FailsOf(proxies', proxy[c]) = FailsOf(proxies, proxy[c]) + 1
       /\ GetProxyRaises(c) => NothingMarked(c)
    ]_vars

\* ---- a refresh that fails ----

\* the fetch of the list raised an error or got a response that is not 2xx, or
\* the page holds no https row
FetchFailure(resp) == ~resp.ok \/ Len(ParseRows(resp.rows)) = 0
FetchFailures == {resp \in Responses : FetchFailure(resp)}

\* C35: a refreshProxies call that fails by a fetch error, a non-2xx response or
\* a page without https rows leaves the list, the failure counts, currentIndex,
\* lastRefresh and the cache file unchanged.
C35_FailedRefreshFrame ==
  [][\A k \in CallSites :
       (/\ waiting'[k] < waiting[k]
        /\ lastGet'.kind \in {"throw", "null"}
        /\ \E resp \in FetchFailures : RefreshReturn(k, resp)) =>
         UNCHANGED <<proxies, currentIndex, lastRefresh, proxyCache>>
    ]_vars

\* the refresh for the age of the list has failed, and the list, with a failure
\* counted on an entry, its old time stamp and the cache file are still there
C35_Witness ==
  /\ lastGet.kind = "throw"
  /\ now - lastRefresh > HalfHour
  /\ Len(proxies) = 2
  /\ \E n \in 1..Len(proxies) : proxies[n].fails > 0
  /\ proxyCache = CacheOf(lastRefresh, proxies)

\* ---- a task that does not get its marker ----

\* the worker w takes image i from the queue and calls performOCR
TaskStarts(w, i) == wimg'[w] = i /\ started'[i] = started[i] + 1

\* the marker of image i exists and is not older than the staleness window
FreshlyLocked(i) == lock[i] # NoLock /\ ~isLockStale(lock, i, staleLockTime, now)

\* C36: a task whose acquireLock returns false on a marker that another process
\* created after the classification and that is younger than the staleness
\* window returns Locked; it makes no fetch, writes no result artifact and
\* neither deletes nor rewrites that marker.
C36_LockedTaskFrame ==
  [][/\ \A w \in Workers, i \in AllImages :
          (TaskStarts(w, i) /\ FreshlyLocked(i)) =>
            /\ wpc'[w] = "result"
            /\ wres'[w] = "Locked"
            /\ fetched'[i] = 0
            /\ UNCHANGED <<lock, txt, unlinked, acquired>>
     /\ \A i \in Range(pending) :
          Entries(i, "Locked") = 1 =>
            /\ fetched'[i] = 0
            /\ unlinked'[i] = 0
            /\ i \notin acquired'
            /\ txt'[TxtPath(i)] # TextOf(i)
    ]_vars

\* a task found the marker that the other instance created after the
\* classification and returned Locked, and the marker is still there
C36_Witness ==
  \E w \in Workers :
    /\ wpc[w] = "result"
    /\ wres[w] = "Locked"
    /\ wimg[w] \in Range(pending)
    /\ wimg[w] \in touched
    /\ startLock[wimg[w]] = NoLock
    /\ lock[wimg[w]] = [owner |-> "other", mtime |-> now]
    /\ fetched[wimg[w]] = 0
    /\ faults = {}

\* ---- the artifact ----

\* the task of worker w returns in this step, with outcome o
TaskReturns(w, o) ==
  /\ wpc'[w] = "result"
  /\ wres'[w] = o
  /\ wpc[w] # "result" \/ wimg'[w] # wimg[w]

\* C37: a task writes the result artifact only after a 2xx response whose body
\* parses and holds a text: every write of an artifact is made by a task that
\* has its response and returns Success in the same stretch, and a task that
\* returns Failure or Locked has not created or modified the artifact.
C37_ArtifactOnlyOnSuccess ==
  [][/\ txt' # txt =>
          \E w \in Workers :
            /\ wpc[w] = "text"
            /\ fetched[wimg[w]] = 1
            /\ TaskReturns(w, "Success")
            /\ txt' = [txt EXCEPT ![TxtPath(wimg[w])] = TextOf(wimg[w])]
     /\ \A w \in Workers :
          (TaskReturns(w, "Failure") \/ TaskReturns(w, "Locked")) => txt' = txt
    ]_vars

\* a task has written the text of its image and returned Success; the task of
\* an image of another name got a response without text and returned Failure,
\* and that image has no artifact
C37_Witness ==
  \E i, j \in Range(pending) :
    /\ Stem(i) # Stem(j)
    /\ Entries(i, "Success") = 1
    /\ txt[TxtPath(i)] = TextOf(i)
    /\ Entries(j, "Failure") = 1
    /\ fetched[j] = 1
    /\ <<"net", j>> \in faults
    /\ txt[TxtPath(j)] = NoTxt

\* C38 as stated: at the end of a run, for every image whose outcome is Success
\* the sibling artifact holds the text recognised for that image, also when two
\* files of one directory share a base name and differ in their extension.
C38_ArtifactHoldsOwnText ==
  RunDone =>
    \A i \in Range(imageFiles) :
      Entries(i, "Success") = 1 => txt[TxtPath(i)] = TextOf(i)

\* ---- the second run ----

\* outcome that the run before this one reported for image i
PriorKinds(i) == {prior[n].kind : n \in {k \in 1..Len(prior) : prior[k].img = i}}

\* this is a second run, past its filtering loop
SecondRun == prior # <<>> /\ RunStarted

\* C39: when a run is complete and a second run starts on the same root with no
\* other change to the folder, every image that was Success or Skipped in the
\* first run is reported Skipped by the second, which starts no task, makes no
\* fetch and creates no marker for it; the second run attempts only images that
\* were Failure or Locked in the first.
C39_RerunSkipsFinished ==
  SecondRun =>
    /\ \A i \in AllImages :
         PriorKinds(i) \cap {"Success", "Skipped"} # {} =>
           /\ Entries(i, "Skipped") = 1
           /\ EntriesOf(i) = 1
           /\ started[i] = 0
           /\ fetched[i] = 0
           /\ i \notin acquired
           /\ lock[i] = startLock[i]
    /\ \A i \in AllImages :
         started[i] > 0 => PriorKinds(i) \cap {"Failure", "Locked"} # {}

\* the second run is complete: it has skipped the image that the first run
\* processed and has processed the image whose task had failed in the first
C39_Witness ==
  /\ prior # <<>>
  /\ RunDone
  /\ \E i, j \in AllImages :
       /\ PriorKinds(i) = {"Success"}
       /\ Entries(i, "Skipped") = 1
       /\ PriorKinds(j) = {"Failure"}
       /\ fetched[j] = 1
       /\ Entries(j, "Success") = 1

\* ---- the run comes to its end ----

\* a callback of this process runs: main goes on, or an await of a task settles
RunStep ==
  \/ MainStart
  \/ SpawnWorker
  \/ \E w \in Workers : FetchReturn(w)
  \/ \E w \in Workers : TextReturn(w)
  \/ \E w \in Workers : Catch(w)
  \/ \E w \in Workers : WorkerResume(w)
  \/ Complete

\* every request returns or fails and every callback that is ready is run
FairRun ==
  /\ Init
  /\ [][Next]_vars
  /\ WF_vars(RunStep)

\* the root is a directory with at least one image file under it
HasCandidates == rootKind \in {"dir", "unreadable"} /\ numFiles >= 1

\* neither the write of the completion marker nor the deletion of the
\* in-progress marker has failed
FlagsWritable == <<"flagwrite", 0>> \notin faults /\ <<"flagunlink", 0>> \notin faults

\* C40: when the root is a directory with at least one candidate file and every
\* request eventually returns or fails, a fairly scheduled run eventually comes
\* to its end with the completion marker written and the in-progress marker
\* deleted (as far as the two file operations of createCompletionFile succeed),
\* for every batch size and every mix of outcomes.
C40_RunCompletes ==
  HasCandidates ~>
    (RunDone /\ (FlagsWritable => completionFlag.present /\ ~progressFlag))

====
